---- MODULE Spec2Model ----
(***************************************************************************)
(* A model of the Spyglasses SDK's pattern-classification engine:          *)
(*   - the Spyglasses class (registry, regex cache, rule resolution,       *)
(*     bot / referrer / combined detection, pattern sync),                 *)
(*   - the detector module (specificity scoring, detect, detectDetailed).  *)
(*                                                                         *)
(* JavaScript strings are sequences of one-character strings, so that the  *)
(* character-level operations of the code (regular expressions, includes,  *)
(* toLowerCase, template literals) are computed and not assumed.           *)
(***************************************************************************)
EXTENDS Integers, Sequences, FiniteSets, TLC

\* ------------------------------------------------------------------------
\* Characters and strings
\* ------------------------------------------------------------------------

\* The printable ASCII characters in code order; AsciiTable[i] has code i + 31.
\* (The grave accent, code 96, is written "<grave>": no string of the model uses it.)
AsciiTable ==
  << " ", "!", "\"", "#", "$", "%", "&", "'", "(", ")", "*", "+", ",", "-", ".", "/",
     "0", "1", "2", "3", "4", "5", "6", "7", "8", "9", ":", ";", "<", "=", ">", "?",
     "@", "A", "B", "C", "D", "E", "F", "G", "H", "I", "J", "K", "L", "M", "N", "O",
     "P", "Q", "R", "S", "T", "U", "V", "W", "X", "Y", "Z", "[", "\\", "]", "^", "_",
     "<grave>", "a", "b", "c", "d", "e", "f", "g", "h", "i", "j", "k", "l", "m", "n", "o",
     "p", "q", "r", "s", "t", "u", "v", "w", "x", "y", "z", "{", "|", "}", "~" >>

Chars == {AsciiTable[i] : i \in DOMAIN AsciiTable}

CodeOf == [c \in Chars |-> (CHOOSE i \in DOMAIN AsciiTable : AsciiTable[i] = c) + 31]

CharOfCode(n) == AsciiTable[n - 31]

IsUpper(c) == CodeOf[c] >= CodeOf["A"] /\ CodeOf[c] <= CodeOf["Z"]

IsLower(c) == CodeOf[c] >= CodeOf["a"] /\ CodeOf[c] <= CodeOf["z"]

IsDigit(c) == CodeOf[c] >= CodeOf["0"] /\ CodeOf[c] <= CodeOf["9"]

IsAlpha(c) == IsUpper(c) \/ IsLower(c)

\* the character class [a-zA-Z0-9]
IsAlnum(c) == IsAlpha(c) \/ IsDigit(c)

ToLowerChar(c) == IF IsUpper(c) THEN CharOfCode(CodeOf[c] + (CodeOf["a"] - CodeOf["A"])) ELSE c

ToUpperChar(c) == IF IsLower(c) THEN CharOfCode(CodeOf[c] - (CodeOf["a"] - CodeOf["A"])) ELSE c

\* String.prototype.toLowerCase
toLowerCase(s) == [i \in 1..Len(s) |-> ToLowerChar(s[i])]

\* String.prototype.includes: sub occurs in s as a contiguous substring
includes(s, sub) ==
  \E i \in 0..(Len(s) - Len(sub)) : SubSeq(s, i + 1, i + Len(sub)) = sub

\* Array.prototype.includes on an array of strings
arrayIncludes(list, x) == \E i \in DOMAIN list : list[i] = x

\* the index of the first occurrence of character c in s at or after i, 0 if none
RECURSIVE IndexOfChar(_, _, _)
IndexOfChar(s, c, i) ==
  IF i > Len(s) THEN 0
  ELSE IF s[i] = c THEN i
  ELSE IndexOfChar(s, c, i + 1)

\* ------------------------------------------------------------------------
\* Regular expressions: new RegExp(source, "i") and RegExp.prototype.test
\*
\* The modelled subset of the pattern syntax: literal characters, escaped
\* characters (\/ \. \- ...), the digit escape \d, the wildcard ".",
\* bracket classes with single characters and ranges ([0-9], [a-z0-9],
\* [^...]), and the quantifiers * + ? after one atom. A quantifier with
\* nothing to repeat, an unterminated class, a trailing backslash and an
\* unbalanced parenthesis are syntax errors, as in the engine. Groups,
\* alternation, anchors and braces are outside the subset and no signature
\* of the model uses them.
\* ------------------------------------------------------------------------

\* the members of a bracket class body cls[i..], as a set of <<lo, hi>> code ranges
RECURSIVE ClassRanges(_, _)
ClassRanges(cls, i) ==
  IF i > Len(cls) THEN {}
  ELSE IF i + 2 <= Len(cls) /\ cls[i + 1] = "-"
    THEN {<<CodeOf[cls[i]], CodeOf[cls[i + 2]]>>} \cup ClassRanges(cls, i + 3)
  ELSE {<<CodeOf[cls[i]], CodeOf[cls[i]]>>} \cup ClassRanges(cls, i + 1)

\* the atom of the bracket class whose body (between the brackets) is cls
ClassAtom(cls) ==
  LET neg  == Len(cls) > 0 /\ cls[1] = "^"
      body == IF neg THEN SubSeq(cls, 2, Len(cls)) ELSE cls
  IN [k |-> "class", neg |-> neg, ranges |-> ClassRanges(body, 1), q |-> "1"]

LiteralAtom(c) ==
  [k |-> "class", neg |-> FALSE, ranges |-> {<<CodeOf[c], CodeOf[c]>>}, q |-> "1"]

AnyAtom == [k |-> "any", neg |-> FALSE, ranges |-> {}, q |-> "1"]

DigitAtom ==
  [k |-> "class", neg |-> FALSE, ranges |-> {<<CodeOf["0"], CodeOf["9"]>>}, q |-> "1"]

SyntaxError == [ok |-> FALSE, atoms |-> <<>>]

\* parse src[i..] after the atoms acc; lazy: the last atom's quantifier
\* already carries a lazy "?"
RECURSIVE ParseFrom(_, _, _, _)
ParseFrom(src, i, acc, lazy) ==
  IF i > Len(src) THEN [ok |-> TRUE, atoms |-> acc]
  ELSE
    LET c == src[i] IN
    CASE c = "\\" ->
           IF i = Len(src) THEN SyntaxError
           ELSE IF src[i + 1] = "d"
             THEN ParseFrom(src, i + 2, Append(acc, DigitAtom), FALSE)
           ELSE ParseFrom(src, i + 2, Append(acc, LiteralAtom(src[i + 1])), FALSE)
      [] c = "." -> ParseFrom(src, i + 1, Append(acc, AnyAtom), FALSE)
      [] c = "[" ->
           LET close == IndexOfChar(src, "]", i + 1) IN
           IF close = 0 THEN SyntaxError
           ELSE ParseFrom(src, close + 1,
                          Append(acc, ClassAtom(SubSeq(src, i + 1, close - 1))), FALSE)
      [] c \in {"*", "+", "?"} ->
           IF Len(acc) = 0 THEN SyntaxError
           ELSE IF acc[Len(acc)].q = "1"
             THEN ParseFrom(src, i + 1, [acc EXCEPT ![Len(acc)].q = c], FALSE)
           ELSE IF c = "?" /\ ~lazy
             THEN ParseFrom(src, i + 1, acc, TRUE)
           ELSE SyntaxError
      [] c \in {"(", ")"} -> SyntaxError
      [] OTHER -> ParseFrom(src, i + 1, Append(acc, LiteralAtom(c)), FALSE)

\* the source of new RegExp(undefined) and of new RegExp(""): the empty
\* non-capturing group
EmptyPatternSource == <<"(","?",":",")">>

\* new RegExp(source, "i"): the parsed pattern, or a SyntaxError; the empty
\* group parses to no atom
RegExpCompile(source) ==
  IF source = EmptyPatternSource THEN [ok |-> TRUE, atoms |-> <<>>]
  ELSE ParseFrom(source, 1, <<>>, FALSE)

\* character c is in the atom's set, ignoring case (the "i" flag)
AtomHas(atom, c) ==
  \/ atom.k = "any"
  \/ /\ atom.k = "class"
     /\ atom.neg #
          (\E r \in atom.ranges :
             \E v \in {CodeOf[c], CodeOf[ToLowerChar(c)], CodeOf[ToUpperChar(c)]} :
               r[1] <= v /\ v <= r[2])

\* atoms[k..] match a prefix of s[i..]
RECURSIVE MatchAt(_, _, _, _)
MatchAt(atoms, k, s, i) ==
  IF k > Len(atoms) THEN TRUE
  ELSE
    LET a    == atoms[k]
        here == i <= Len(s) /\ AtomHas(a, s[i])
    IN CASE a.q = "1" -> here /\ MatchAt(atoms, k + 1, s, i + 1)
         [] a.q = "?" -> (here /\ MatchAt(atoms, k + 1, s, i + 1)) \/ MatchAt(atoms, k + 1, s, i)
         [] a.q = "*" -> MatchAt(atoms, k + 1, s, i) \/ (here /\ MatchAt(atoms, k, s, i + 1))
         [] a.q = "+" -> here /\ (MatchAt(atoms, k + 1, s, i + 1) \/ MatchAt(atoms, k, s, i + 1))

\* regexp.test(s) for a compiled, unanchored, non-global regular expression
RegExpTest(atoms, s) == \E i \in 1..(Len(s) + 1) : MatchAt(atoms, 1, s, i)

\* ------------------------------------------------------------------------
\* Values
\*
\* Strings the code inspects character by character, or builds directives
\* from (signatures, taxonomy fields, directives, user agents, referrers,
\* domain fragments), are character sequences; strings it only stores and
\* copies (company, url, intent, ids, versions, the API key) are atoms.
\* ------------------------------------------------------------------------

\* the value of a missing string field
undefined == <<"undefined">>

\* JavaScript truthiness of a string-or-undefined value
Truthy(s) == s # undefined /\ s # <<>>

\* a || b on string-or-undefined values
OrDefault(s, d) == IF Truthy(s) THEN s ELSE d

\* ${s} inside a template literal
TemplateStr(s) == IF s = undefined THEN <<"u","n","d","e","f","i","n","e","d">> ELSE s


PatternPrefix == <<"p","a","t","t","e","r","n",":">>

CategoryPrefix == <<"c","a","t","e","g","o","r","y",":">>

SubcategoryPrefix == <<"s","u","b","c","a","t","e","g","o","r","y",":">>

TypePrefix == <<"t","y","p","e",":">>

Colon == <<":">>

DefaultCategory == <<"U","n","k","n","o","w","n">>

DefaultSubcategory == <<"U","n","c","l","a","s","s","i","f","i","e","d">>

DefaultType == <<"u","n","k","n","o","w","n">>

BotPattern(pattern, url, type, category, subcategory, company, isCompliant, isAiModelTrainer, intent) ==
  [pattern |-> pattern, url |-> url, type |-> type, category |-> category,
   subcategory |-> subcategory, company |-> company, isCompliant |-> isCompliant,
   isAiModelTrainer |-> isAiModelTrainer, intent |-> intent]

AiReferrerInfo(id, name, company, url, fragments, description) ==
  [id |-> id, name |-> name, company |-> company, url |-> url,
   patterns |-> fragments, description |-> description]

\* taxonomy strings of the bundled patterns
AIAgent == <<"A","I"," ","A","g","e","n","t">>

AIAssistants == <<"A","I"," ","A","s","s","i","s","t","a","n","t","s">>

AICrawler == <<"A","I"," ","C","r","a","w","l","e","r">>

ModelTrainingCrawlers == <<"M","o","d","e","l"," ","T","r","a","i","n","i","n","g"," ","C","r","a","w","l","e","r","s">>

SigChatGPTUser == <<"C","h","a","t","G","P","T","-","U","s","e","r","\\","/","[","0","-","9","]">>

SigPerplexityUser == <<"P","e","r","p","l","e","x","i","t","y","-","U","s","e","r","\\","/","[","0","-","9","]">>

SigGeminiUser == <<"G","e","m","i","n","i","-","U","s","e","r","\\","/","[","0","-","9","]">>

SigClaudeUser == <<"C","l","a","u","d","e","-","U","s","e","r","\\","/","[","0","-","9","]">>

SigCCBot == <<"C","C","B","o","t","\\","/","[","0","-","9","]">>

SigClaudeBot == <<"C","l","a","u","d","e","B","o","t","\\","/","[","0","-","9","]">>

SigGPTBot == <<"G","P","T","B","o","t","\\","/","[","0","-","9","]">>

SigMetaExternalAgent == <<"m","e","t","a","-","e","x","t","e","r","n","a","l","a","g","e","n","t","\\","/","[","0","-","9","]">>

SigApplebotExtended == <<"A","p","p","l","e","b","o","t","-","E","x","t","e","n","d","e","d","\\","/","[","0","-","9","]">>

TypeChatGPTUser == <<"c","h","a","t","g","p","t","-","u","s","e","r">>

TypePerplexityUser == <<"p","e","r","p","l","e","x","i","t","y","-","u","s","e","r">>

TypeGeminiUser == <<"g","e","m","i","n","i","-","u","s","e","r">>

TypeClaudeUser == <<"c","l","a","u","d","e","-","u","s","e","r">>

TypeCCBot == <<"c","c","b","o","t">>

TypeClaudeBot == <<"c","l","a","u","d","e","-","b","o","t">>

TypeGPTBot == <<"g","p","t","b","o","t">>

TypeMetaExternalAgent == <<"m","e","t","a","-","e","x","t","e","r","n","a","l","a","g","e","n","t">>

TypeApplebotExtended == <<"a","p","p","l","e","b","o","t","-","e","x","t","e","n","d","e","d">>

\* the bundled snapshot: this.patterns after loadDefaultPatterns
DefaultPatterns ==
  << BotPattern(SigChatGPTUser, "https://platform.openai.com/docs/bots",
                TypeChatGPTUser, AIAgent, AIAssistants, "OpenAI", TRUE, FALSE, "UserQuery"),
     BotPattern(SigPerplexityUser, "https://docs.perplexity.ai/guides/bots",
                TypePerplexityUser, AIAgent, AIAssistants, "Perplexity AI", TRUE, FALSE, "UserQuery"),
     BotPattern(SigGeminiUser, "https://ai.google.dev/gemini-api/docs/bots",
                TypeGeminiUser, AIAgent, AIAssistants, "Google", TRUE, FALSE, "UserQuery"),
     BotPattern(SigClaudeUser, "https://support.anthropic.com/en/articles/8896518-does-anthropic-crawl-data-from-the-web-and-how-can-site-owners-block-the-crawler",
                TypeClaudeUser, AIAgent, AIAssistants, "Anthropic", TRUE, FALSE, "UserQuery"),
     BotPattern(SigCCBot, "https://commoncrawl.org/ccbot",
                TypeCCBot, AICrawler, ModelTrainingCrawlers, "Common Crawl", TRUE, TRUE, "DataCollection"),
     BotPattern(SigClaudeBot, "https://support.anthropic.com/en/articles/8896518-does-anthropic-crawl-data-from-the-web-and-how-can-site-owners-block-the-crawler",
                TypeClaudeBot, AICrawler, ModelTrainingCrawlers, "Anthropic", TRUE, TRUE, "DataCollection"),
     BotPattern(SigGPTBot, "https://platform.openai.com/docs/gptbot",
                TypeGPTBot, AICrawler, ModelTrainingCrawlers, "OpenAI", TRUE, TRUE, "DataCollection"),
     BotPattern(SigMetaExternalAgent, "https://developers.facebook.com/docs/sharing/webmasters/crawler",
                TypeMetaExternalAgent, AICrawler, ModelTrainingCrawlers, "Meta", TRUE, TRUE, "DataCollection"),
     BotPattern(SigApplebotExtended, "https://support.apple.com/en-us/119829",
                TypeApplebotExtended, AICrawler, ModelTrainingCrawlers, "Apple", TRUE, TRUE, "DataCollection") >>

\* domain fragments of the bundled AI referrers
DomChatOpenai == <<"c","h","a","t",".","o","p","e","n","a","i",".","c","o","m">>

DomChatgpt == <<"c","h","a","t","g","p","t",".","c","o","m">>

DomClaude == <<"c","l","a","u","d","e",".","a","i">>

DomPerplexity == <<"p","e","r","p","l","e","x","i","t","y",".","a","i">>

DomGemini == <<"g","e","m","i","n","i",".","g","o","o","g","l","e",".","c","o","m">>

DomBard == <<"b","a","r","d",".","g","o","o","g","l","e",".","c","o","m">>

DomCopilot == <<"c","o","p","i","l","o","t",".","m","i","c","r","o","s","o","f","t",".","c","o","m">>

DomBingChat == <<"b","i","n","g",".","c","o","m","/","c","h","a","t">>

\* the bundled snapshot: this.aiReferrers after loadDefaultPatterns
DefaultAiReferrers ==
  << AiReferrerInfo("chatgpt", "ChatGPT", "OpenAI", "https://chat.openai.com",
                    <<DomChatOpenai, DomChatgpt>>,
                    "Traffic from ChatGPT users clicking on links"),
     AiReferrerInfo("claude", "Claude", "Anthropic", "https://claude.ai",
                    <<DomClaude>>,
                    "Traffic from Claude users clicking on links"),
     AiReferrerInfo("perplexity", "Perplexity", "Perplexity AI", "https://perplexity.ai",
                    <<DomPerplexity>>,
                    "Traffic from Perplexity users clicking on links"),
     AiReferrerInfo("gemini", "Gemini", "Google", "https://gemini.google.com",
                    <<DomGemini, DomBard>>,
                    "Traffic from Gemini users clicking on links"),
     AiReferrerInfo("copilot", "Microsoft Copilot", "Microsoft", "https://copilot.microsoft.com/",
                    <<DomCopilot, DomBingChat>>,
                    "Traffic from Microsoft Copilot users clicking on links") >>

\* private patternVersion: string = "1.0.0"
DefaultPatternVersion == "1.0.0"

\* ------------------------------------------------------------------------
\* new URL(input).hostname
\*
\* The modelled subset of the URL parser: an absolute URL needs a scheme
\* (a letter, then letters, digits, "+", "-", "."), followed by ":"; without
\* one the constructor throws (there is no base URL). For the special
\* schemes http, https, ftp, ws and wss any run of slashes after the colon
\* is skipped and the authority runs to the next "/", "\", "?" or "#"; user
\* information (up to the last "@") and the port (after the last ":") are
\* dropped, an empty host or a non-numeric port is a failure, and the host
\* is lowercased. For any other scheme the host is the authority after
\* "//", and the empty string when the URL has no "//" (an opaque path).
\* ------------------------------------------------------------------------

\* the index of the last occurrence of c in s, 0 if none
LastIndexOfChar(s, c) ==
  IF \E i \in DOMAIN s : s[i] = c
    THEN CHOOSE i \in DOMAIN s : s[i] = c /\ \A j \in DOMAIN s : s[j] = c => j <= i
    ELSE 0

\* the first index at or after i whose character is not in set, Len(s) + 1 if none
RECURSIVE SkipWhile(_, _, _)
SkipWhile(s, set, i) ==
  IF i > Len(s) \/ s[i] \notin set THEN i ELSE SkipWhile(s, set, i + 1)

\* the first index at or after i whose character is in set, Len(s) + 1 if none
RECURSIVE FindAny(_, _, _)
FindAny(s, set, i) ==
  IF i > Len(s) \/ s[i] \in set THEN i ELSE FindAny(s, set, i + 1)

HTTP == <<"h","t","t","p">>

HTTPS == <<"h","t","t","p","s">>

FTP == <<"f","t","p">>

WS == <<"w","s">>

WSS == <<"w","s","s">>

SchemeChars == {c \in Chars : IsAlnum(c)} \cup {"+", "-", "."}

SpecialSchemes == {HTTP, HTTPS, FTP, WS, WSS}

URLFailure == [ok |-> FALSE, hostname |-> <<>>]

\* host and port of an authority with the user information removed
HostOfAuthority(auth, special) ==
  LET at       == LastIndexOfChar(auth, "@")
      hostport == SubSeq(auth, at + 1, Len(auth))
      colon    == LastIndexOfChar(hostport, ":")
      host     == IF colon = 0 THEN hostport ELSE SubSeq(hostport, 1, colon - 1)
      port     == IF colon = 0 THEN <<>> ELSE SubSeq(hostport, colon + 1, Len(hostport))
  IN IF \E i \in DOMAIN port : ~IsDigit(port[i]) THEN URLFailure
     ELSE IF special /\ host = <<>> THEN URLFailure
     ELSE [ok |-> TRUE, hostname |-> IF special THEN toLowerCase(host) ELSE host]

ParseURL(input) ==
  IF Len(input) = 0 \/ ~IsAlpha(input[1]) THEN URLFailure
  ELSE
    LET colon == SkipWhile(input, SchemeChars, 1) IN
    IF colon > Len(input) \/ input[colon] # ":" THEN URLFailure
    ELSE
      LET scheme  == toLowerCase(SubSeq(input, 1, colon - 1))
          special == scheme \in SpecialSchemes
          start   == IF special THEN SkipWhile(input, {"/", "\\"}, colon + 1)
                     ELSE colon + 3
          hasAuth == special \/
                     (colon + 2 <= Len(input) /\ input[colon + 1] = "/" /\ input[colon + 2] = "/")
          stop    == FindAny(input, IF special THEN {"/", "\\", "?", "#"} ELSE {"/", "?", "#"}, start)
      IN IF ~hasAuth THEN [ok |-> TRUE, hostname |-> <<>>]
         ELSE HostOfAuthority(SubSeq(input, start, stop - 1), special)

\* ------------------------------------------------------------------------
\* Pattern sync: the responses of the patterns endpoint
\* ------------------------------------------------------------------------

\* a JSON value that may be an array: { t: "array" | "undefined" | "string" }
JArray(items) == [t |-> "array", items |-> items]

JUndefined == [t |-> "undefined", items |-> <<>>]

\* a non-empty string where an array is expected
JString == [t |-> "string", items |-> <<>>]

\* an object where an array is expected
JObject == [t |-> "object", items |-> <<>>]

\* !v for a JSON value (arrays, objects and non-empty strings are truthy)
JFalsy(v) == v.t = "undefined"

\* Array.isArray(v)
IsArray(v) == v.t = "array"

\* a missing atom (version)
Absent == "<absent>"

NoPropertySettings ==
  [present |-> FALSE, blockAiModelTrainers |-> FALSE, customBlocks |-> <<>>, customAllows |-> <<>>]

PropertySettings(block, blocks, allows) ==
  [present |-> TRUE, blockAiModelTrainers |-> block, customBlocks |-> blocks, customAllows |-> allows]

ApiPatternResponse(version, pats, refs, settings) ==
  [version |-> version, patterns |-> pats, aiReferrers |-> refs, propertySettings |-> settings]

SigGooglebot == <<"G","o","o","g","l","e","b","o","t">>

TypeGooglebot == <<"g","o","o","g","l","e","b","o","t">>

SearchCrawler == <<"S","e","a","r","c","h"," ","C","r","a","w","l","e","r">>

SearchEngines == <<"S","e","a","r","c","h"," ","E","n","g","i","n","e","s">>

GPTBotPattern == DefaultPatterns[7]

ChatGPTUserPattern == DefaultPatterns[1]

GooglebotPattern ==
  BotPattern(SigGooglebot, "https://developers.google.com/search/docs/crawling-indexing/googlebot",
             TypeGooglebot, SearchCrawler, SearchEngines, "Google", TRUE, FALSE, "Search")

\* a pattern of the API with empty taxonomy fields and a generic signature
SigBot == <<"b","o","t">>

UnclassifiedPattern ==
  BotPattern(SigBot, "", <<>>, <<>>, <<>>, "", FALSE, TRUE, "")

ClaudeReferrer == DefaultAiReferrers[2]

\* the directives the configurations and platform settings are built from
GPTBotPatternDirective == PatternPrefix \o SigGPTBot

AICrawlerDirective == CategoryPrefix \o AICrawler

TrainingSubcategoryDirective == SubcategoryPrefix \o AICrawler \o Colon \o ModelTrainingCrawlers

GPTBotTypeDirective == TypePrefix \o AICrawler \o Colon \o ModelTrainingCrawlers \o Colon \o TypeGPTBot

AIAgentDirective == CategoryPrefix \o AIAgent

\* platform response whose property settings switch model-trainer blocking
\* on and hold a custom block rule
PlatformSettings ==
  ApiPatternResponse("1.0.0", JArray(<<GPTBotPattern>>), JArray(<<>>),
                     PropertySettings(TRUE, <<AICrawlerDirective>>, <<>>))

\* a new snapshot: other patterns, other referrers, another version
SnapshotV2 ==
  ApiPatternResponse("2.0.0", JArray(<<GooglebotPattern, GPTBotPattern>>),
                     JArray(<<ClaudeReferrer>>), NoPropertySettings)

\* a response with only a patterns array
SnapshotBare ==
  ApiPatternResponse(Absent, JArray(<<UnclassifiedPattern>>), JUndefined, NoPropertySettings)

\* { invalid: "response" }
InvalidMissing ==
  ApiPatternResponse(Absent, JUndefined, JUndefined, NoPropertySettings)

\* patterns is not an array, the other fields are well formed
InvalidNonArray ==
  ApiPatternResponse("3.0.0", JString, JArray(<<ClaudeReferrer>>),
                     PropertySettings(TRUE, <<>>, <<>>))

\* a signature that does not compile: its character class is not closed
SigMalformed == <<"G","P","T","[","B","o","t">>

MalformedPattern ==
  BotPattern(SigMalformed, "", TypeGPTBot, AICrawler, ModelTrainingCrawlers, "OpenAI",
             TRUE, TRUE, "DataCollection")

\* null where a pattern or referrer entry is expected
NullEntry == [null |-> TRUE]

\* the pattern entry {}: every field reads as undefined
EmptyEntry == BotPattern(undefined, "", undefined, undefined, undefined, "", FALSE, FALSE, "")

\* a referrer entry without a patterns list
ReferrerWithoutPatterns ==
  [id |-> "claude", name |-> "Claude", company |-> "Anthropic", url |-> "https://claude.ai",
   description |-> ""]

\* responses whose patterns field is an array, with entries or referrers
\* that are not what the types promise
SnapshotMalformedFirst ==
  ApiPatternResponse("4.0.0", JArray(<<MalformedPattern, GPTBotPattern>>),
                     JArray(<<ClaudeReferrer>>), NoPropertySettings)

SnapshotNullEntries ==
  ApiPatternResponse("4.0.1", JArray(<<NullEntry, GPTBotPattern>>),
                     JArray(<<NullEntry, ClaudeReferrer>>), NoPropertySettings)

SnapshotFieldless ==
  ApiPatternResponse("4.0.2", JArray(<<EmptyEntry>>),
                     JArray(<<ReferrerWithoutPatterns, ClaudeReferrer>>), NoPropertySettings)

SnapshotObjectReferrers ==
  ApiPatternResponse("4.0.3", JArray(<<GPTBotPattern>>), JObject, NoPropertySettings)

SnapshotStringReferrers ==
  ApiPatternResponse("4.0.4", JArray(<<GPTBotPattern>>), JString, NoPropertySettings)

\* snapshots in which a generic and a specific signature match one user
\* agent, in both orders, and behind a signature that does not compile
SnapshotGenericFirst ==
  ApiPatternResponse("5.0.0", JArray(<<UnclassifiedPattern, GPTBotPattern>>),
                     JArray(<<>>), NoPropertySettings)

SnapshotSpecificFirst ==
  ApiPatternResponse("5.0.1", JArray(<<GPTBotPattern, UnclassifiedPattern>>),
                     JArray(<<>>), NoPropertySettings)

SnapshotMalformedThenTwo ==
  ApiPatternResponse("5.0.2", JArray(<<MalformedPattern, UnclassifiedPattern, GPTBotPattern>>),
                     JArray(<<>>), NoPropertySettings)

OverlappingBodies == {SnapshotGenericFirst, SnapshotSpecificFirst, SnapshotMalformedThenTwo}

\* a snapshot whose referrers are three of the bundled ones in reverse order
SnapshotReferrersReversed ==
  ApiPatternResponse("6.0.0", JArray(<<GPTBotPattern>>),
                     JArray(<<DefaultAiReferrers[3], DefaultAiReferrers[2], DefaultAiReferrers[1]>>),
                     NoPropertySettings)

ReferrerBodies == {SnapshotV2, SnapshotReferrersReversed}

\* patterns of a response without taxonomy fields, and with a category only
UntypedPattern ==
  BotPattern(SigBot, "", undefined, undefined, undefined, "", FALSE, FALSE, "")

CategoryOnlyPattern ==
  BotPattern(SigGooglebot, "", undefined, AICrawler, undefined, "", FALSE, FALSE, "")

SnapshotUntyped ==
  ApiPatternResponse("7.0.0", JArray(<<CategoryOnlyPattern, UntypedPattern>>),
                     JArray(<<>>), NoPropertySettings)

TaxonomyBodies == {SnapshotGenericFirst, SnapshotUntyped}

MalformedBodies ==
  {SnapshotMalformedFirst, SnapshotNullEntries, SnapshotFieldless, SnapshotObjectReferrers,
   SnapshotStringReferrers}

ValidBodies == {PlatformSettings, SnapshotV2, SnapshotBare}

InvalidBodies == {InvalidMissing, InvalidNonArray}

Bodies == ValidBodies \cup InvalidBodies

\* the body of an ok response: JSON text of an object, the JSON text "null",
\* or text that is no JSON
JsonBody(data) == [kind |-> "json", data |-> data]

NullBody == [kind |-> "null", data |-> InvalidMissing]

TextBody == [kind |-> "text", data |-> InvalidMissing]

ResponseBodies == {JsonBody(data) : data \in Bodies} \cup {NullBody, TextBody}

\* what a settled syncPatterns promise resolved to
ErrorString(message) == [kind |-> "string", message |-> message, data |-> InvalidMissing]

ResolvedData(data) == [kind |-> "data", message |-> "", data |-> data]

Pending == [kind |-> "pending", message |-> "", data |-> InvalidMissing]

NoApiKeyMessage == "No API key set for pattern sync"

InvalidFormatMessage == "Invalid pattern response format"

\* Pattern sync HTTP error ${response.status}: ${response.statusText}
HttpErrorMessage(status, statusText) ==
  "Pattern sync HTTP error " \o status \o ": " \o statusText

\* Error syncing patterns: ${error.message}
SyncErrorMessage(message) == "Error syncing patterns: " \o message

\* a validation that only rejects a missing patterns field
InvalidPatternResponseMissingOnly(data) == JFalsy(data.patterns)

\* !data.patterns || !Array.isArray(data.patterns)
InvalidPatternResponse(data) == JFalsy(data.patterns) \/ ~IsArray(data.patterns)

\* ------------------------------------------------------------------------
\* Inputs
\* ------------------------------------------------------------------------

UaGPTBot == <<"M","o","z","i","l","l","a","/","5",".","0"," ","(","c","o","m","p","a","t","i","b","l","e",";"," ","G","P","T","B","o","t","/","1",".","0",")">>

UaChatGPTUser == <<"C","h","a","t","G","P","T","-","U","s","e","r","/","1",".","0">>

UaGooglebot == <<"G","o","o","g","l","e","b","o","t","/","2",".","1">>

UaBrowser == <<"M","o","z","i","l","l","a","/","5",".","0"," ","C","h","r","o","m","e","/","9","1",".","0">>

EmptyString == <<>>

\* the user agents of the calls on an instance
UserAgents == {UaGPTBot, UaGooglebot, UaBrowser, EmptyString}

\* the user agents of the calls under the blocking rules
RuleUserAgents == UserAgents \cup {UaChatGPTUser}

\* a URL of an AI platform
RefChatOpenai == <<"h","t","t","p","s",":","/","/","c","h","a","t",".","o","p","e","n","a","i",".","c","o","m","/","c","/","1">>

\* no URL: matched as a raw string
RefRawClaude == <<"C","l","a","u","d","e",".","a","i","/","c","h","a","t">>

\* a URL whose hostname holds fragments of two platforms and whose path
\* holds the fragment of a third
RefTwoHosts == <<"h","t","t","p","s",":","/","/","c","h","a","t","g","p","t",".","c","o","m",".","c","l","a","u","d","e",".","a","i","/","p","e","r","p","l","e","x","i","t","y",".","a","i">>

\* a URL that names platforms in its path, query and fragment only
RefPathOnly == <<"h","t","t","p","s",":","/","/","e","x","a","m","p","l","e",".","c","o","m","/","c","h","a","t",".","o","p","e","n","a","i",".","c","o","m","?","q","=","c","l","a","u","d","e",".","a","i","#","p","e","r","p","l","e","x","i","t","y",".","a","i">>

\* a URL in capitals
RefUpperUrl == <<"H","T","T","P","S",":","/","/","C","H","A","T",".","O","P","E","N","A","I",".","C","O","M","/","C","/","1">>

\* the URL of the platform whose bundled fragment has a path
RefBingChat == <<"h","t","t","p","s",":","/","/","w","w","w",".","b","i","n","g",".","c","o","m","/","c","h","a","t","?","q","=","1">>

\* the same without a scheme: no URL
RefRawBingChat == <<"w","w","w",".","B","i","n","g",".","c","o","m","/","c","h","a","t","?","q","=","1">>

ReferrerInputs ==
  {RefChatOpenai, RefRawClaude, RefTwoHosts, RefPathOnly, RefUpperUrl, RefBingChat,
   RefRawBingChat, EmptyString, undefined}

Referrers == {RefChatOpenai, RefRawClaude, EmptyString, undefined}

ApiKeys == {"", "test-api-key"}

\* the longest rule list of a configuration
MaxDirectives == 1

\* the syncPatterns calls that issue a request, over the life of the instance
MaxFetches == 2

\* all lists of at most n directives from pool
RuleLists(pool, n) == {list : list \in UNION {[1..k -> pool] : k \in 0..n}}

\* signature patterns of the detector's pattern files
SigGPTBotName == <<"G","P","T","B","o","t">>

SigCrawler == <<"c","r","a","w","l","e","r">>

SigOpenAICrawler == <<"O","p","e","n","A","I","-","c","r","a","w","l","e","r">>

SigClaudeSearchBot == <<"C","l","a","u","d","e","-","S","e","a","r","c","h","B","o","t","\\","/","[","0","-","9","]">>

\* the pool agents.json is drawn from when the patterns are exported
ExportAgentSignatures == {SigClaudeSearchBot, SigGPTBot, SigGooglebot, SigCrawler}

\* the pools agents.json and crawler-user-agents.json are drawn from
AgentSignatures == {SigGPTBotName, SigGPTBot, SigGooglebot, SigCrawler, SigOpenAICrawler}

CrawlerSignatures == {SigGooglebot, SigBot, SigCrawler}

\* a user agent that names two products
UaGPTBotCrawler == <<"G","P","T","B","o","t","/","1",".","0"," ","c","r","a","w","l","e","r">>

\* a user agent whose product name is one signature of two groups
UaOpenAICrawler == <<"O","p","e","n","A","I","-","c","r","a","w","l","e","r","/","1",".","0">>

\* a user agent with a generic word that no pattern file need hold
UaSpider == <<"M","y","S","p","i","d","e","r","/","0",".","1">>

\* the user agents of the detector calls
DetectorUserAgents ==
  {UaGPTBot, UaGPTBotCrawler, UaOpenAICrawler, UaGooglebot, UaSpider, UaBrowser, EmptyString}

\* a user agent that names a search crawler and calls itself a crawler
UaGooglebotCrawler == <<"G","o","o","g","l","e","b","o","t","/","2",".","1"," ","c","r","a","w","l","e","r">>

PrecedenceUserAgents == DetectorUserAgents \cup {UaGooglebotCrawler}

\* the longest agents.json and crawler-user-agents.json
MaxAgents == 2

\* the pieces the signatures given to getPatternSpecificity are made of:
\* letters, generic words, brand names, the version marker, a separator
\* and a wildcard pair
SignatureFragments ==
  {<<"a">>, <<"a","b">>, <<"b","o","t">>, <<"S","p","i","d","e","r">>, <<"c","r","a","w","l","e","r">>, <<"G","P","T","B","o","t">>, <<"O","A","I","-">>, <<"\\","/","[","0","-","9","]">>, <<"-">>, <<".","*">>}

\* the user agents of the calls with and without a user agent; undefined
\* stands for both null and undefined, which the code does not tell apart
AbsentUserAgents == {EmptyString, undefined}

EdgeUserAgents == AbsentUserAgents \cup {UaGPTBot, UaGooglebot}

\* what a caller does to a returned array: the objects it pushes, the
\* elements it pops, the highest position whose entry it writes to
MaxPushed == 1

MaxPopped == 1

MaxWritten == 2

\* the assignments a caller makes to a field of a returned entry
CallerWrites ==
  {<<"isAiModelTrainer", TRUE>>, <<"pattern", SigGooglebot>>, <<"patterns", <<>>>>}

\* the most fragments in a signature
MaxFragments == 2

\* the concatenation of the strings of a list
RECURSIVE concat(_)
concat(strings) == IF strings = <<>> THEN <<>> ELSE Head(strings) \o concat(Tail(strings))

SpecificitySignatures ==
  {concat(fragments) : fragments \in RuleLists(SignatureFragments, MaxFragments) \ {<<>>}}

\* ------------------------------------------------------------------------
\* Memo tables: the character-level functions on the strings of the model,
\* computed once
\* ------------------------------------------------------------------------

\* the signatures of the bundled snapshot and of the responses
Signatures ==
  {DefaultPatterns[i].pattern : i \in DOMAIN DefaultPatterns}
    \cup UNION {{data.patterns.items[i].pattern : i \in DOMAIN data.patterns.items} : data \in Bodies}
    \cup AgentSignatures \cup CrawlerSignatures \cup {SigMalformed}
    \cup ExportAgentSignatures

\* the domain fragments of the bundled snapshot and of the responses
Fragments ==
  UNION {{DefaultAiReferrers[i].patterns[j] : j \in DOMAIN DefaultAiReferrers[i].patterns} :
           i \in DOMAIN DefaultAiReferrers}

CompileMemo == [source \in Signatures |-> RegExpCompile(source)]

TestMemo ==
  [source \in Signatures |->
     [s \in RuleUserAgents \cup PrecedenceUserAgents |-> CompileMemo[source].ok /\ RegExpTest(CompileMemo[source].atoms, s)]]

\* new RegExp(source, "i") does not throw
Compiles(source) ==
  IF source \in Signatures THEN CompileMemo[source].ok ELSE RegExpCompile(source).ok

HostnameMemo ==
  [referrer \in (Referrers \cup ReferrerInputs) \ {undefined} |->
     IF ParseURL(referrer).ok THEN toLowerCase(ParseURL(referrer).hostname)
     ELSE toLowerCase(referrer)]

IncludesMemo ==
  [hostname \in {HostnameMemo[r] : r \in DOMAIN HostnameMemo} |->
     [fragment \in Fragments |-> includes(hostname, fragment)]]

\* ------------------------------------------------------------------------
\* The Spyglasses class
\* ------------------------------------------------------------------------

VARIABLES
  \* configuration (private fields set by the constructor and updateConfig)
  apiKey, debug, blockAiModelTrainers, customBlocks, customAllows, autoSync,
  \* registry
  patterns, aiReferrers, patternRegexCache, lastPatternSync, patternVersion,
  \* environment: Date.now(), the syncPatterns calls in flight (how many
  \* await fetch(), how many await response.json()), the number of network
  \* requests issued so far
  now, syncs, fetches,
  \* the last call made on the instance and what it returned (for
  \* syncPatterns: what its promise settled to)
  call, result,
  \* the detector module: the two pattern files it is compiled from
  agents, crawlerPatterns

configVars == <<apiKey, debug, blockAiModelTrainers, customBlocks, customAllows, autoSync>>

registryVars == <<patterns, aiReferrers, patternRegexCache, lastPatternSync, patternVersion>>

envVars == <<now, syncs, fetches>>

detectorVars == <<agents, crawlerPatterns>>

vars == <<configVars, registryVars, envVars, call, result, detectorVars>>

Call(op, userAgent, referrer) == [op |-> op, userAgent |-> userAgent, referrer |-> referrer]

\* a call that did not return: a TypeError left the method
Thrown == [threw |-> "TypeError"]

\* { isBot: false, shouldBlock: false, sourceType: "none" }
NoneResult == [isBot |-> FALSE, shouldBlock |-> FALSE, sourceType |-> "none"]

\* the source of the regex the constructor builds from its first argument:
\* undefined and the empty string give the empty pattern
RegExpSource(pattern) ==
  IF pattern \in {undefined, <<>>} THEN EmptyPatternSource ELSE pattern

\* new RegExp(pattern, "i")
NewRegExp(pattern) == [source |-> RegExpSource(pattern), flags |-> "i"]

\* regex.test(s)
test(regex, s) ==
  IF regex.source \in Signatures /\ s \in RuleUserAgents \cup PrecedenceUserAgents
    THEN TestMemo[regex.source][s]
    ELSE RegExpTest(RegExpCompile(regex.source).atoms, s)

\* a lookup that takes any cached regex for the one it is asked for
getRegexForPatternAnyCached(pattern) ==
  IF DOMAIN patternRegexCache # {}
    THEN [threw |-> FALSE,
          regex |-> patternRegexCache[CHOOSE key \in DOMAIN patternRegexCache : TRUE]]
  ELSE [threw |-> ~Compiles(RegExpSource(pattern)), regex |-> NewRegExp(pattern)]

\* getRegexForPattern(pattern): the cached regex, or a new one; the RegExp
\* constructor throws on a signature that does not compile, before anything
\* is cached
getRegexForPattern(pattern) ==
  IF pattern \in DOMAIN patternRegexCache
    THEN [threw |-> FALSE, regex |-> patternRegexCache[pattern]]
  ELSE [threw |-> ~Compiles(RegExpSource(pattern)), regex |-> NewRegExp(pattern)]

\* the rule directives of a pattern
PatternDirective(pattern) == PatternPrefix \o TemplateStr(pattern)

CategoryDirective(category) == CategoryPrefix \o category

SubcategoryDirective(category, subcategory) ==
  SubcategoryPrefix \o category \o Colon \o subcategory

TypeDirective(category, subcategory, type) ==
  TypePrefix \o category \o Colon \o subcategory \o Colon \o type

\* a decision that consults only the first entry of the allow list
shouldBlockFirstAllowOnly(patternData, allows, blocks, blockTrainers) ==
  LET category    == OrDefault(patternData.category, DefaultCategory)
      subcategory == OrDefault(patternData.subcategory, DefaultSubcategory)
      type        == OrDefault(patternData.type, DefaultType)
      directives  == {PatternDirective(patternData.pattern), CategoryDirective(category),
                      SubcategoryDirective(category, subcategory),
                      TypeDirective(category, subcategory, type)}
  IN IF allows # <<>> /\ allows[1] \in directives THEN FALSE
     ELSE IF \E d \in directives : arrayIncludes(blocks, d) THEN TRUE
     ELSE blockTrainers /\ patternData.isAiModelTrainer

\* a decision that consults the block list before the allow list
shouldBlockBlocksFirst(patternData, allows, blocks, blockTrainers) ==
  LET category    == OrDefault(patternData.category, DefaultCategory)
      subcategory == OrDefault(patternData.subcategory, DefaultSubcategory)
      type        == OrDefault(patternData.type, DefaultType)
      directives  == {PatternDirective(patternData.pattern), CategoryDirective(category),
                      SubcategoryDirective(category, subcategory),
                      TypeDirective(category, subcategory, type)}
  IN IF \E d \in directives : arrayIncludes(blocks, d) THEN TRUE
     ELSE IF \E d \in directives : arrayIncludes(allows, d) THEN FALSE
     ELSE blockTrainers /\ patternData.isAiModelTrainer

\* a decision whose block list is not consulted for type directives
shouldBlockNoTypeBlock(patternData, allows, blocks, blockTrainers) ==
  LET category    == OrDefault(patternData.category, DefaultCategory)
      subcategory == OrDefault(patternData.subcategory, DefaultSubcategory)
      type        == OrDefault(patternData.type, DefaultType)
  IN IF arrayIncludes(allows, PatternDirective(patternData.pattern)) THEN FALSE
     ELSE IF \/ arrayIncludes(allows, CategoryDirective(category))
             \/ arrayIncludes(allows, SubcategoryDirective(category, subcategory))
             \/ arrayIncludes(allows, TypeDirective(category, subcategory, type))
       THEN FALSE
     ELSE IF arrayIncludes(blocks, PatternDirective(patternData.pattern)) THEN TRUE
     ELSE IF \/ arrayIncludes(blocks, CategoryDirective(category))
             \/ arrayIncludes(blocks, SubcategoryDirective(category, subcategory))
       THEN TRUE
     ELSE blockTrainers /\ patternData.isAiModelTrainer

\* shouldBlockPattern with the rule lists and the switch made explicit
shouldBlock(patternData, allows, blocks, blockTrainers) ==
  LET category    == OrDefault(patternData.category, DefaultCategory)
      subcategory == OrDefault(patternData.subcategory, DefaultSubcategory)
      type        == OrDefault(patternData.type, DefaultType)
  IN IF arrayIncludes(allows, PatternDirective(patternData.pattern)) THEN FALSE
     ELSE IF \/ arrayIncludes(allows, CategoryDirective(category))
             \/ arrayIncludes(allows, SubcategoryDirective(category, subcategory))
             \/ arrayIncludes(allows, TypeDirective(category, subcategory, type))
       THEN FALSE
     ELSE IF arrayIncludes(blocks, PatternDirective(patternData.pattern)) THEN TRUE
     ELSE IF \/ arrayIncludes(blocks, CategoryDirective(category))
             \/ arrayIncludes(blocks, SubcategoryDirective(category, subcategory))
             \/ arrayIncludes(blocks, TypeDirective(category, subcategory, type))
       THEN TRUE
     ELSE IF blockTrainers /\ patternData.isAiModelTrainer THEN TRUE
     ELSE FALSE

\* private shouldBlockPattern(patternData)
shouldBlockPattern(patternData) ==
  shouldBlock(patternData, customAllows, customBlocks, blockAiModelTrainers)

\* a BotInfo that passes the taxonomy fields on as they are
BotInfoUndefaulted(pattern) ==
  [pattern |-> pattern.pattern,
   type |-> pattern.type,
   category |-> pattern.category,
   subcategory |-> pattern.subcategory,
   company |-> pattern.company,
   isCompliant |-> pattern.isCompliant,
   isAiModelTrainer |-> pattern.isAiModelTrainer,
   intent |-> IF pattern.intent = "" THEN "unknown" ELSE pattern.intent,
   url |-> pattern.url]

\* the BotInfo object detectBot builds for a matched pattern
BotInfo(pattern) ==
  [pattern |-> pattern.pattern,
   type |-> OrDefault(pattern.type, DefaultType),
   category |-> OrDefault(pattern.category, DefaultCategory),
   subcategory |-> OrDefault(pattern.subcategory, DefaultSubcategory),
   company |-> pattern.company,
   isCompliant |-> pattern.isCompliant,
   isAiModelTrainer |-> pattern.isAiModelTrainer,
   intent |-> IF pattern.intent = "" THEN "unknown" ELSE pattern.intent,
   url |-> pattern.url]

BotResult(pattern) ==
  [isBot |-> TRUE, shouldBlock |-> shouldBlockPattern(pattern), sourceType |-> "bot",
   matchedPattern |-> pattern.pattern, info |-> BotInfo(pattern)]

\* a loop that runs to the end of the registry and keeps the last match
detectBotFromLast(userAgent, i) ==
  LET hits == {k \in i..Len(patterns) :
                 /\ patterns[k] # NullEntry
                 /\ ~getRegexForPattern(patterns[k].pattern).threw
                 /\ test(getRegexForPattern(patterns[k].pattern).regex, userAgent)}
  IN IF hits = {} THEN 0 ELSE CHOOSE k \in hits : \A j \in hits : j <= k

\* the loop of detectBot from registry index i on: the index of the first
\* entry whose regex matches, 0 when the loop runs to its end; an entry whose
\* regex throws is skipped (try/catch inside the loop). Reading
\* pattern.pattern of a null entry throws inside the try block; with debug
\* on, the catch block reads pattern.pattern again for its message and that
\* TypeError leaves detectBot: -i when this happens at entry i
RECURSIVE detectBotFrom(_, _)
detectBotFrom(userAgent, i) ==
  IF i > Len(patterns) THEN 0
  ELSE IF patterns[i] = NullEntry
    THEN IF debug THEN -i ELSE detectBotFrom(userAgent, i + 1)
  ELSE IF getRegexForPattern(patterns[i].pattern).threw THEN detectBotFrom(userAgent, i + 1)
  ELSE IF test(getRegexForPattern(patterns[i].pattern).regex, userAgent) THEN i
  ELSE detectBotFrom(userAgent, i + 1)

\* a cache that also keeps an entry for a signature that did not compile
cacheAfterKeepsAll(last) ==
  LET visited == {patterns[i].pattern : i \in {k \in 1..last : patterns[k] # NullEntry}}
  IN patternRegexCache @@ [pattern \in visited \ DOMAIN patternRegexCache |-> NewRegExp(pattern)]

\* the regex cache after the loop visited the registry entries 1..last: every
\* visited signature that compiles has its regex cached
cacheAfter(last) ==
  LET visited == {patterns[i].pattern : i \in {k \in 1..last : patterns[k] # NullEntry}}
      added   == {pattern \in visited :
                    pattern \notin DOMAIN patternRegexCache /\ Compiles(RegExpSource(pattern))}
  IN patternRegexCache @@ [pattern \in added |-> NewRegExp(pattern)]

\* what detectBot returns and caches when its loop ended at: a match at
\* entry at, no match (0), or a TypeError at entry -at
detectBotOutcome(at) ==
  IF at < 0 THEN [result |-> Thrown, cache |-> cacheAfter(- at)]
  ELSE IF at = 0 THEN [result |-> NoneResult, cache |-> cacheAfter(Len(patterns))]
  ELSE [result |-> BotResult(patterns[at]), cache |-> cacheAfter(at)]

\* a detectBot that runs its loop on every argument; the regex test
\* converts its argument to a string
detectBotNoGuard(userAgent) == detectBotOutcome(detectBotFrom(TemplateStr(userAgent), 1))

\* detectBot(userAgent): the result and the regex cache it leaves
detectBot(userAgent) ==
  IF ~Truthy(userAgent) THEN [result |-> NoneResult, cache |-> patternRegexCache]
  ELSE detectBotOutcome(detectBotFrom(userAgent, 1))

\* a detectAiReferrer that matches against the whole referrer
ReferrerWhole(referrer) == toLowerCase(referrer)

\* the hostname detectAiReferrer matches against
ReferrerHostname(referrer) ==
  IF referrer \in DOMAIN HostnameMemo THEN HostnameMemo[referrer]
  ELSE IF ParseURL(referrer).ok THEN toLowerCase(ParseURL(referrer).hostname)
  ELSE toLowerCase(referrer)

\* hostname.includes(pattern)
hostnameIncludes(hostname, pattern) ==
  IF hostname \in DOMAIN IncludesMemo /\ pattern \in Fragments
    THEN IncludesMemo[hostname][pattern]
    ELSE includes(hostname, pattern)

\* a referrer result that follows the model-trainer switch
AiReferrerResultBlocked(pattern, aiReferrer) ==
  [isBot |-> FALSE, shouldBlock |-> blockAiModelTrainers, sourceType |-> "ai_referrer",
   matchedPattern |-> pattern, info |-> aiReferrer]

AiReferrerResult(pattern, aiReferrer) ==
  [isBot |-> FALSE, shouldBlock |-> FALSE, sourceType |-> "ai_referrer",
   matchedPattern |-> pattern, info |-> aiReferrer]

\* this.aiReferrers when the response held a value that is no array and
\* cannot be iterated (an object, a number, true)
NonIterable == <<[t |-> "object"]>>

\* the nested loops of detectAiReferrer from entry i, fragment j on. An
\* entry without a patterns list throws inside the try block and is
\* skipped. So does a null entry, but with debug on its catch block reads
\* aiReferrer.name for the message and that TypeError leaves the method
RECURSIVE detectAiReferrerFrom(_, _, _)
detectAiReferrerFrom(hostname, i, j) ==
  IF i > Len(aiReferrers) THEN NoneResult
  ELSE IF aiReferrers[i] = NullEntry
    THEN IF debug THEN Thrown ELSE detectAiReferrerFrom(hostname, i + 1, 1)
  ELSE IF "patterns" \notin DOMAIN aiReferrers[i] THEN detectAiReferrerFrom(hostname, i + 1, 1)
  ELSE IF j > Len(aiReferrers[i].patterns) THEN detectAiReferrerFrom(hostname, i + 1, 1)
  ELSE IF hostnameIncludes(hostname, aiReferrers[i].patterns[j])
    THEN AiReferrerResult(aiReferrers[i].patterns[j], aiReferrers[i])
  ELSE detectAiReferrerFrom(hostname, i, j + 1)

\* for (... of this.aiReferrers) is outside any try block
detectAiReferrer(referrer) ==
  IF ~Truthy(referrer) THEN NoneResult
  ELSE IF aiReferrers = NonIterable THEN Thrown
  ELSE detectAiReferrerFrom(ReferrerHostname(referrer), 1, 1)

\* a detect that gives the referrer priority over the user agent
detectReferrerFirst(userAgent, referrer) ==
  IF Truthy(referrer) /\ detectAiReferrer(referrer).sourceType = "ai_referrer"
    THEN [result |-> detectAiReferrer(referrer), cache |-> detectBot(userAgent).cache]
  ELSE detectBot(userAgent)

\* detect after its detectBot call returned bot: the bot result when a bot
\* matched, else the referrer result ref when a referrer is given and
\* matches, else the negative result; a TypeError of either call leaves
\* detect
detectAfterBot(bot, ref, referrer) ==
  IF bot.result = Thrown THEN bot
  ELSE IF bot.result.isBot THEN bot
  ELSE IF ~Truthy(referrer) THEN [result |-> NoneResult, cache |-> bot.cache]
  ELSE IF ref = Thrown THEN [result |-> Thrown, cache |-> bot.cache]
  ELSE IF ref.sourceType = "ai_referrer" THEN [result |-> ref, cache |-> bot.cache]
  ELSE [result |-> NoneResult, cache |-> bot.cache]

\* detect(userAgent, referrer): the result and the regex cache it leaves
detect(userAgent, referrer) ==
  detectAfterBot(detectBot(userAgent), detectAiReferrer(referrer), referrer)

\* a character of a string that is iterated as a list of referrer entries
CharEntry == [char |-> TRUE]

\* data.aiReferrers || []: an array as it is, [] for a missing field; a
\* string iterates as its characters, an object cannot be iterated
InstalledReferrers(v) ==
  IF JFalsy(v) THEN <<>>
  ELSE IF IsArray(v) THEN v.items
  ELSE IF v.t = "string" THEN <<CharEntry>>
  ELSE NonIterable

\* an installation that leaves the compiled-regex cache as it is
InstalledKeepsCache(data, time) ==
  [patterns |-> data.patterns.items,
   aiReferrers |-> InstalledReferrers(data.aiReferrers),
   patternVersion |-> IF data.version \in {Absent, ""} THEN DefaultPatternVersion ELSE data.version,
   lastPatternSync |-> time,
   patternRegexCache |-> patternRegexCache]

\* an installation that replaces the patterns and the version and leaves
\* the referrers of the registry before
InstalledPatternsOnly(data, time) ==
  [patterns |-> data.patterns.items,
   aiReferrers |-> aiReferrers,
   patternVersion |-> IF data.version \in {Absent, ""} THEN DefaultPatternVersion ELSE data.version,
   lastPatternSync |-> time,
   patternRegexCache |-> <<>>]

\* the registry after the assignments of a successful sync
\* (patterns, aiReferrers, patternVersion, lastPatternSync, cache cleared)
Installed(data, time) ==
  [patterns |-> data.patterns.items,
   aiReferrers |-> InstalledReferrers(data.aiReferrers),
   patternVersion |-> IF data.version \in {Absent, ""} THEN DefaultPatternVersion ELSE data.version,
   lastPatternSync |-> time,
   patternRegexCache |-> <<>>]

\* ------------------------------------------------------------------------
\* Operations
\* ------------------------------------------------------------------------

\* a construction that does not load the bundled snapshot
ConstructedWithoutDefaults(config) ==
  /\ apiKey = config.apiKey
  /\ debug = config.debug
  /\ blockAiModelTrainers = config.blockAiModelTrainers
  /\ customBlocks = config.customBlocks
  /\ customAllows = config.customAllows
  /\ autoSync = config.autoSync
  /\ patterns = <<>>
  /\ aiReferrers = <<>>
  /\ patternRegexCache = <<>>
  /\ lastPatternSync = 0
  /\ patternVersion = DefaultPatternVersion
  /\ now = 1
  /\ syncs = IF config.autoSync /\ config.apiKey # ""
               THEN [fetching |-> 1, reading |-> <<>>]
               ELSE [fetching |-> 0, reading |-> <<>>]
  /\ fetches = IF config.autoSync /\ config.apiKey # "" THEN 1 ELSE 0
  /\ call = Call("constructor", undefined, undefined)
  /\ result = Pending

\* the state after new Spyglasses(config): the configuration merged with
\* DEFAULT_CONFIG, the bundled snapshot loaded, and a first sync started
\* when autoSync and an API key are set
Constructed(config) ==
  /\ apiKey = config.apiKey
  /\ debug = config.debug
  /\ blockAiModelTrainers = config.blockAiModelTrainers
  /\ customBlocks = config.customBlocks
  /\ customAllows = config.customAllows
  /\ autoSync = config.autoSync
  /\ patterns = DefaultPatterns
  /\ aiReferrers = DefaultAiReferrers
  /\ patternRegexCache = <<>>
  /\ lastPatternSync = 0
  /\ patternVersion = DefaultPatternVersion
  /\ now = 1
  /\ syncs = IF config.autoSync /\ config.apiKey # ""
               THEN [fetching |-> 1, reading |-> <<>>]
               ELSE [fetching |-> 0, reading |-> <<>>]
  /\ fetches = IF config.autoSync /\ config.apiKey # "" THEN 1 ELSE 0
  /\ call = Call("constructor", undefined, undefined)
  /\ result = Pending

Config(key, dbg, block, blocks, allows, auto) ==
  [apiKey |-> key, debug |-> dbg, blockAiModelTrainers |-> block,
   customBlocks |-> blocks, customAllows |-> allows, autoSync |-> auto]

\* the detector module is not part of the class
NoDetector == agents = <<>> /\ crawlerPatterns = <<>>

DetectBot(userAgent) ==
  /\ call' = Call("detectBot", userAgent, undefined)
  /\ LET r == detectBot(userAgent)
     IN result' = r.result /\ patternRegexCache' = r.cache
  /\ UNCHANGED <<configVars, patterns, aiReferrers, lastPatternSync, patternVersion,
                 envVars, detectorVars>>

DetectAiReferrer(referrer) ==
  /\ call' = Call("detectAiReferrer", undefined, referrer)
  /\ result' = detectAiReferrer(referrer)
  /\ UNCHANGED <<configVars, registryVars, envVars, detectorVars>>

Detect(userAgent, referrer) ==
  /\ call' = Call("detect", userAgent, referrer)
  /\ LET r == detect(userAgent, referrer)
     IN result' = r.result /\ patternRegexCache' = r.cache
  /\ UNCHANGED <<configVars, patterns, aiReferrers, lastPatternSync, patternVersion,
                 envVars, detectorVars>>

\* syncPatterns() up to its first await: without an API key it resolves at
\* once with a message, otherwise it issues the request
SyncPatterns ==
  /\ call' = Call("syncPatterns", undefined, undefined)
  /\ IF apiKey = ""
       THEN /\ result' = ErrorString(NoApiKeyMessage)
            /\ UNCHANGED <<syncs, fetches>>
       ELSE /\ fetches < MaxFetches
            /\ result' = Pending
            /\ syncs' = [syncs EXCEPT !.fetching = @ + 1]
            /\ fetches' = fetches + 1
  /\ UNCHANGED <<configVars, registryVars, now, detectorVars>>

\* fetch() rejects: the catch block resolves the promise with a message
FetchRejects ==
  /\ syncs.fetching > 0
  /\ syncs' = [syncs EXCEPT !.fetching = @ - 1]
  /\ call' = Call("syncPatterns", undefined, undefined)
  /\ result' = ErrorString(SyncErrorMessage("Network error"))
  /\ UNCHANGED <<configVars, registryVars, now, fetches, detectorVars>>

\* fetch() resolves with a response that is not ok
FetchHttpError ==
  /\ syncs.fetching > 0
  /\ syncs' = [syncs EXCEPT !.fetching = @ - 1]
  /\ call' = Call("syncPatterns", undefined, undefined)
  /\ result' = ErrorString(HttpErrorMessage("403", "Forbidden"))
  /\ UNCHANGED <<configVars, registryVars, now, fetches, detectorVars>>

\* fetch() resolves with an ok response carrying body: the call awaits
\* response.json()
FetchOk(body) ==
  /\ syncs.fetching > 0
  /\ syncs' = [syncs EXCEPT !.fetching = @ - 1, !.reading = Append(@, body)]
  /\ UNCHANGED <<configVars, registryVars, now, fetches, call, result, detectorVars>>

\* the list without its i-th element
RemoveAt(list, i) == SubSeq(list, 1, i - 1) \o SubSeq(list, i + 1, Len(list))

\* a rejection of response.json() that stamps the sync time
JsonRejectsStamps(i) ==
  /\ syncs.reading[i].kind = "text"
  /\ syncs' = [syncs EXCEPT !.reading = RemoveAt(@, i)]
  /\ call' = Call("syncPatterns", undefined, undefined)
  /\ result' = ErrorString(SyncErrorMessage("Unexpected token < in JSON at position 0"))
  /\ lastPatternSync' = now
  /\ UNCHANGED <<configVars, patterns, aiReferrers, patternRegexCache, patternVersion,
                 now, fetches, detectorVars>>

\* response.json() of the i-th awaited response rejects: the body is no JSON
JsonRejects(i) ==
  /\ syncs.reading[i].kind = "text"
  /\ syncs' = [syncs EXCEPT !.reading = RemoveAt(@, i)]
  /\ call' = Call("syncPatterns", undefined, undefined)
  /\ result' = ErrorString(SyncErrorMessage("Unexpected token < in JSON at position 0"))
  /\ UNCHANGED <<configVars, registryVars, now, fetches, detectorVars>>

\* response.json() of the i-th awaited response resolves with data: the rest
\* of syncPatterns runs to its return without another await; reading
\* data.patterns of null throws into the catch block
JsonResolves(i) ==
  /\ syncs.reading[i].kind # "text"
  /\ syncs' = [syncs EXCEPT !.reading = RemoveAt(@, i)]
  /\ call' = Call("syncPatterns", undefined, undefined)
  /\ LET data == syncs.reading[i].data IN
     IF syncs.reading[i].kind = "null"
       THEN /\ result' = ErrorString(SyncErrorMessage("Cannot read properties of null (reading 'patterns')"))
            /\ UNCHANGED <<registryVars, now>>
     ELSE IF InvalidPatternResponse(data)
       THEN /\ result' = ErrorString(InvalidFormatMessage)
            /\ UNCHANGED <<registryVars, now>>
     ELSE /\ LET registry == Installed(data, now)
             IN /\ patterns' = registry.patterns
                /\ aiReferrers' = registry.aiReferrers
                /\ patternVersion' = registry.patternVersion
                /\ lastPatternSync' = registry.lastPatternSync
                /\ patternRegexCache' = registry.patternRegexCache
          /\ now' = now + 1
          /\ result' = ResolvedData(data)
  /\ UNCHANGED <<configVars, fetches, detectorVars>>

\* the array a getter returns: [...list] is a new array whose elements are
\* the entry objects of the internal list themselves. refs[k] = i says that
\* element k is the object at index i of the internal list; 0 is an object
\* of the caller
ReturnedArray(of, list) ==
  [kind |-> "array", of |-> of, refs |-> [k \in 1..Len(list) |-> k]]

\* the entries a returned array holds
Contents(array, list) == [k \in DOMAIN array.refs |-> list[array.refs[k]]]

\* getPatterns()
GetPatterns ==
  /\ call' = Call("getPatterns", undefined, undefined)
  /\ result' = ReturnedArray("patterns", patterns)
  /\ UNCHANGED <<configVars, registryVars, envVars, detectorVars>>

\* getAiReferrers()
GetAiReferrers ==
  /\ call' = Call("getAiReferrers", undefined, undefined)
  /\ result' = ReturnedArray("aiReferrers", aiReferrers)
  /\ UNCHANGED <<configVars, registryVars, envVars, detectorVars>>

\* the caller still holds the array the last getter returned
HoldsArray ==
  /\ call.op \in {"getPatterns", "getAiReferrers", "caller"}
  /\ result.kind = "array"

\* the caller pushes an object of its own onto the returned array
CallerPushes ==
  /\ HoldsArray
  /\ Len(result.refs) < Len(IF result.of = "patterns" THEN patterns ELSE aiReferrers) + MaxPushed
  /\ call' = Call("caller", undefined, undefined)
  /\ result' = [result EXCEPT !.refs = Append(@, 0)]
  /\ UNCHANGED <<configVars, registryVars, envVars, detectorVars>>

\* the caller pops the last element off the returned array
CallerPops ==
  /\ HoldsArray
  /\ Len(result.refs) > 0
  /\ Len(result.refs) + MaxPopped > Len(IF result.of = "patterns" THEN patterns ELSE aiReferrers)
  /\ call' = Call("caller", undefined, undefined)
  /\ result' = [result EXCEPT !.refs = SubSeq(@, 1, Len(@) - 1)]
  /\ UNCHANGED <<configVars, registryVars, envVars, detectorVars>>

\* the caller swaps the first two elements of the returned array
CallerReorders ==
  /\ HoldsArray
  /\ Len(result.refs) >= 2
  /\ call' = Call("caller", undefined, undefined)
  /\ result' = [result EXCEPT !.refs[1] = result.refs[2], !.refs[2] = result.refs[1]]
  /\ UNCHANGED <<configVars, registryVars, envVars, detectorVars>>

\* the caller assigns a field of element k of the returned array: the
\* element is the entry object the registry holds
CallerWritesEntry(k, field, value) ==
  /\ HoldsArray
  /\ k \in DOMAIN result.refs
  /\ result.refs[k] # 0
  /\ call' = Call("caller", undefined, undefined)
  /\ IF result.of = "patterns"
       THEN /\ field \in {"pattern", "isAiModelTrainer"}
            /\ patterns' = [patterns EXCEPT ![result.refs[k]][field] = value]
            /\ UNCHANGED aiReferrers
       ELSE /\ field = "patterns"
            /\ aiReferrers' = [aiReferrers EXCEPT ![result.refs[k]][field] = value]
            /\ UNCHANGED patterns
  /\ UNCHANGED <<configVars, patternRegexCache, lastPatternSync, patternVersion,
                 envVars, result, detectorVars>>

\* getPatternVersion()
GetPatternVersion ==
  /\ call' = Call("getPatternVersion", undefined, undefined)
  /\ result' = [kind |-> "version", value |-> patternVersion]
  /\ UNCHANGED <<configVars, registryVars, envVars, detectorVars>>

\* an updateConfig that starts a sync when the instance has an API key
UpdateConfigSyncs(partial) ==
  /\ call' = [op |-> "updateConfig", partial |-> partial]
  /\ result' = [kind |-> "void"]
  /\ apiKey' = IF "apiKey" \in DOMAIN partial THEN partial.apiKey ELSE apiKey
  /\ debug' = IF "debug" \in DOMAIN partial THEN partial.debug ELSE debug
  /\ blockAiModelTrainers' =
       IF "blockAiModelTrainers" \in DOMAIN partial THEN partial.blockAiModelTrainers
       ELSE blockAiModelTrainers
  /\ customBlocks' = IF "customBlocks" \in DOMAIN partial THEN partial.customBlocks ELSE customBlocks
  /\ customAllows' = IF "customAllows" \in DOMAIN partial THEN partial.customAllows ELSE customAllows
  /\ autoSync' = IF "autoSync" \in DOMAIN partial THEN partial.autoSync ELSE autoSync
  /\ IF apiKey' # "" /\ fetches < MaxFetches
       THEN /\ syncs' = [syncs EXCEPT !.fetching = @ + 1]
            /\ fetches' = fetches + 1
            /\ UNCHANGED now
       ELSE UNCHANGED envVars
  /\ UNCHANGED <<registryVars, detectorVars>>

\* updateConfig(partial): partial is the object of the supplied options, a
\* function on their names; an option that is missing or undefined is not
\* in its domain. The two endpoint options are not part of the model. No
\* sync is started
UpdateConfig(partial) ==
  /\ call' = [op |-> "updateConfig", partial |-> partial]
  /\ result' = [kind |-> "void"]
  /\ apiKey' = IF "apiKey" \in DOMAIN partial THEN partial.apiKey ELSE apiKey
  /\ debug' = IF "debug" \in DOMAIN partial THEN partial.debug ELSE debug
  /\ blockAiModelTrainers' =
       IF "blockAiModelTrainers" \in DOMAIN partial THEN partial.blockAiModelTrainers
       ELSE blockAiModelTrainers
  /\ customBlocks' = IF "customBlocks" \in DOMAIN partial THEN partial.customBlocks ELSE customBlocks
  /\ customAllows' = IF "customAllows" \in DOMAIN partial THEN partial.customAllows ELSE customAllows
  /\ autoSync' = IF "autoSync" \in DOMAIN partial THEN partial.autoSync ELSE autoSync
  /\ UNCHANGED <<registryVars, envVars, detectorVars>>

\* logRequest(detectionResult, requestInfo): without an API key or for a
\* result of source type "none" it resolves at once; otherwise it posts to
\* the collector and resolves with the response, or with undefined when the
\* request fails. Nothing after its await reads or writes the registry or
\* the configuration but the debug flag, so the call is one step whose
\* outcome is the collector's
LogRequest(detectionResult, outcome) ==
  /\ call' = Call("logRequest", undefined, undefined)
  /\ result' = [kind |-> "log",
                outcome |-> IF apiKey = "" \/ detectionResult.sourceType = "none"
                              THEN "skipped" ELSE outcome]
  /\ UNCHANGED <<configVars, registryVars, envVars, detectorVars>>

\* shouldBlockPattern(patternData), the private method, called on its own
ShouldBlockPattern(patternData) ==
  /\ call' = [op |-> "shouldBlockPattern", patternData |-> patternData]
  /\ result' = [verdict |-> shouldBlockPattern(patternData)]
  /\ UNCHANGED <<configVars, registryVars, envVars, detectorVars>>

\* ------------------------------------------------------------------------
\* The detector module (utils/detector.ts)
\* ------------------------------------------------------------------------

\* the character class [\.\*\+\?]
IsWildcard(c) == c \in {".", "*", "+", "?"}

\* the seven characters \/[0-9] that mark a version number
VersionMarker == <<"\\","/","[","0","-","9","]">>

\* the alternatives of /(?:ChatGPT|Claude|Perplexity|Googlebot|bingbot|GPTBot|OAI-)/
BrandNames ==
  {<<"C","h","a","t","G","P","T">>, <<"C","l","a","u","d","e">>, <<"P","e","r","p","l","e","x","i","t","y">>, <<"G","o","o","g","l","e","b","o","t">>, <<"b","i","n","g","b","o","t">>, <<"G","P","T","B","o","t">>, <<"O","A","I","-">>}

\* the alternatives of /^(?:bot|crawler|spider)$/i
GenericTerms == {<<"b","o","t">>, <<"c","r","a","w","l","e","r">>, <<"s","p","i","d","e","r">>}

\* the weights of getPatternSpecificity
LiteralWeight == 2

WildcardWeight == 3

VersionBonus == 5

BrandBonus == 10

GenericPenalty == 15

\* a score that does not count literal characters
getPatternSpecificityNoLiterals(pattern) ==
  - Cardinality({i \in DOMAIN pattern : IsWildcard(pattern[i])}) * WildcardWeight
    + (IF includes(pattern, VersionMarker) THEN VersionBonus ELSE 0)
    + (IF \E brand \in BrandNames : includes(pattern, brand) THEN BrandBonus ELSE 0)
    - (IF toLowerCase(pattern) \in GenericTerms THEN GenericPenalty ELSE 0)

\* a score that adds the brand bonus for every occurrence of a brand name
getPatternSpecificityPerBrand(pattern) ==
  Cardinality({i \in DOMAIN pattern : IsAlnum(pattern[i])}) * LiteralWeight
    - Cardinality({i \in DOMAIN pattern : IsWildcard(pattern[i])}) * WildcardWeight
    + (IF includes(pattern, VersionMarker) THEN VersionBonus ELSE 0)
    + Cardinality({<<brand, i>> \in BrandNames \X DOMAIN pattern :
                     /\ i + Len(brand) - 1 <= Len(pattern)
                     /\ SubSeq(pattern, i, i + Len(brand) - 1) = brand}) * BrandBonus
    - (IF toLowerCase(pattern) \in GenericTerms THEN GenericPenalty ELSE 0)

\* getPatternSpecificity(pattern)
getPatternSpecificity(pattern) ==
  Cardinality({i \in DOMAIN pattern : IsAlnum(pattern[i])}) * LiteralWeight
    - Cardinality({i \in DOMAIN pattern : IsWildcard(pattern[i])}) * WildcardWeight
    + (IF includes(pattern, VersionMarker) THEN VersionBonus ELSE 0)
    + (IF \E brand \in BrandNames : includes(pattern, brand) THEN BrandBonus ELSE 0)
    - (IF toLowerCase(pattern) \in GenericTerms THEN GenericPenalty ELSE 0)

\* p.pattern.toLowerCase().includes(needle) for one of the needles
includesAny(pattern, needles) ==
  \E needle \in needles : includes(toLowerCase(pattern), needle)

\* the groups of patternGroups, in the order of their keys, over the patterns
\* of agents.json
patternGroups(agentPatterns) ==
  << [name |-> "chatgpt", category |-> "AI Agent", company |-> "OpenAI",
      patterns |-> SelectSeq(agentPatterns, LAMBDA p :
        includesAny(p, {<<"c","h","a","t","g","p","t">>, <<"g","p","t","-","4">>, <<"g","p","t","b","o","t">>, <<"o","a","i","-">>, <<"o","p","e","n","a","i">>}))],
     [name |-> "claude", category |-> "AI Agent", company |-> "Anthropic",
      patterns |-> SelectSeq(agentPatterns, LAMBDA p :
        includesAny(p, {<<"c","l","a","u","d","e">>, <<"a","n","t","h","r","o","p","i","c">>}))],
     [name |-> "perplexity", category |-> "AI Assistant", company |-> "Perplexity",
      patterns |-> SelectSeq(agentPatterns, LAMBDA p :
        includesAny(p, {<<"p","e","r","p","l","e","x","i","t","y">>}))],
     [name |-> "googlebot", category |-> "Search Crawler", company |-> "Google",
      patterns |-> SelectSeq(agentPatterns, LAMBDA p :
        includesAny(p, {<<"g","o","o","g","l","e","b","o","t">>, <<"g","o","o","g","l","e","-","e","x","t","e","n","d","e","d">>}))],
     [name |-> "bingbot", category |-> "Search Crawler", company |-> "Microsoft",
      patterns |-> SelectSeq(agentPatterns, LAMBDA p :
        includesAny(p, {<<"b","i","n","g","b","o","t">>, <<"b","i","n","g","p","r","e","v","i","e","w">>}))],
     [name |-> "generic-scraper", category |-> "Scraper", company |-> Absent,
      patterns |-> SelectSeq(agentPatterns, LAMBDA p :
        includesAny(p, {<<"s","c","r","a","p","e","r">>, <<"c","r","a","w","l","e","r">>, <<"s","p","i","d","e","r">>}))] >>

\* a CompiledPattern
CompiledPattern(pattern, name, category, company) ==
  [regexp |-> NewRegExp(pattern), name |-> name, category |-> category,
   company |-> company, specificity |-> getPatternSpecificity(pattern),
   originalPattern |-> pattern]

\* group.patterns.map(...) of one group
CompiledGroup(group) ==
  [i \in DOMAIN group.patterns |->
     CompiledPattern(group.patterns[i], group.name, group.category, group.company)]

\* the concatenation of the lists of a list
RECURSIVE flat(_)
flat(lists) == IF lists = <<>> THEN <<>> ELSE Head(lists) \o flat(Tail(lists))

\* customPatterns: Object.entries(patternGroups).flatMap(...)
customPatterns(agentPatterns) ==
  flat([g \in DOMAIN patternGroups(agentPatterns) |->
          CompiledGroup(patternGroups(agentPatterns)[g])])

\* one element of crawlerUserAgentPatterns: the first branch of the
\* if / else-if chain that applies names the pattern
CrawlerPattern(pattern) ==
  IF includesAny(pattern, {<<"g","p","t","b","o","t">>, <<"c","h","a","t","g","p","t">>, <<"o","a","i","-">>, <<"o","p","e","n","a","i">>})
    THEN CompiledPattern(pattern, "chatgpt", "AI Agent", "OpenAI")
  ELSE IF includesAny(pattern, {<<"c","l","a","u","d","e">>, <<"a","n","t","h","r","o","p","i","c">>})
    THEN CompiledPattern(pattern, "claude", "AI Agent", "Anthropic")
  ELSE IF includesAny(pattern, {<<"p","e","r","p","l","e","x","i","t","y">>})
    THEN CompiledPattern(pattern, "perplexity", "AI Assistant", "Perplexity")
  ELSE IF includesAny(pattern, {<<"g","o","o","g","l","e","b","o","t">>, <<"g","o","o","g","l","e","-","e","x","t","e","n","d","e","d">>})
    THEN CompiledPattern(pattern, "googlebot", "Search Crawler", "Google")
  ELSE IF includesAny(pattern, {<<"b","i","n","g","b","o","t">>, <<"b","i","n","g","p","r","e","v","i","e","w">>})
    THEN CompiledPattern(pattern, "bingbot", "Search Crawler", "Microsoft")
  ELSE IF includesAny(pattern, {<<"s","c","r","a","p","e","r">>, <<"c","r","a","w","l","e","r">>, <<"s","p","i","d","e","r">>})
    THEN CompiledPattern(pattern, "generic-scraper", "Scraper", Absent)
  ELSE CompiledPattern(pattern, "crawler", "Other Bot", Absent)

\* crawlerUserAgentPatterns: crawlerPatterns.map(...)
crawlerUserAgentPatterns(crawlerList) ==
  [i \in DOMAIN crawlerList |-> CrawlerPattern(crawlerList[i])]

\* compiledPatterns: the custom patterns first
compiledPatterns(agentPatterns, crawlerList) ==
  customPatterns(agentPatterns) \o crawlerUserAgentPatterns(crawlerList)

\* a detect that returns after testing the first pattern
detectorDetectFirstOnly(userAgent, compiled) ==
  [isBot |-> compiled # <<>> /\ test(compiled[1].regexp, userAgent)]

\* detect(userAgent) of the detector module
detectorDetect(userAgent, compiled) ==
  [isBot |-> \E i \in DOMAIN compiled : test(compiled[i].regexp, userAgent)]

\* matches.sort((a, b) => b.specificity - a.specificity)[0]: the sort is
\* stable, so the best match is the first of those with the highest
\* specificity
BestMatch(matches) ==
  matches[CHOOSE i \in DOMAIN matches :
            /\ \A j \in DOMAIN matches : matches[j].specificity <= matches[i].specificity
            /\ \A j \in 1..(i - 1) : matches[j].specificity < matches[i].specificity]

\* the confidence values of detectDetailed
ConfidenceCertain == "1.0"

ConfidenceSingle == "0.9"

ConfidenceShared == "0.7"

\* a result whose confidence ignores the number of matches
MatchResultSingle(matches) ==
  [isBot |-> TRUE, category |-> BestMatch(matches).category,
   name |-> BestMatch(matches).name, company |-> BestMatch(matches).company,
   confidence |-> ConfidenceSingle]

\* the result detectDetailed builds from the matches of one group
MatchResult(matches) ==
  [isBot |-> TRUE, category |-> BestMatch(matches).category,
   name |-> BestMatch(matches).name, company |-> BestMatch(matches).company,
   confidence |-> IF Len(matches) = 1 THEN ConfidenceSingle ELSE ConfidenceShared]

\* { isBot: false, category: "Unknown", confidence: 1.0 }
UnknownResult ==
  [isBot |-> FALSE, category |-> "Unknown", name |-> Absent, company |-> Absent,
   confidence |-> ConfidenceCertain]

\* a detectDetailed whose last check looks for the three words in the
\* spelling of the input
detectDetailedCaseSensitive(userAgent, custom, crawler) ==
  LET customMatches  == SelectSeq(custom, LAMBDA p : test(p.regexp, userAgent))
      crawlerMatches == SelectSeq(crawler, LAMBDA p : test(p.regexp, userAgent))
  IN IF ~Truthy(userAgent) THEN UnknownResult
     ELSE IF Len(customMatches) > 0 THEN MatchResult(customMatches)
     ELSE IF Len(crawlerMatches) > 0 THEN MatchResult(crawlerMatches)
     ELSE IF \E word \in {<<"s","c","r","a","p","e","r">>, <<"c","r","a","w","l","e","r">>, <<"s","p","i","d","e","r">>} : includes(userAgent, word)
       THEN [isBot |-> TRUE, category |-> "Scraper", name |-> "generic-scraper",
             company |-> Absent, confidence |-> ConfidenceShared]
     ELSE UnknownResult

\* a detectDetailed that ranks the matches of both groups together
detectDetailedBestOverall(userAgent, custom, crawler) ==
  LET matches == SelectSeq(custom \o crawler, LAMBDA p : test(p.regexp, userAgent))
  IN IF ~Truthy(userAgent) THEN UnknownResult
     ELSE IF Len(matches) > 0 THEN MatchResult(matches)
     ELSE IF includesAny(userAgent, {<<"s","c","r","a","p","e","r">>, <<"c","r","a","w","l","e","r">>, <<"s","p","i","d","e","r">>})
       THEN [isBot |-> TRUE, category |-> "Scraper", name |-> "generic-scraper",
             company |-> Absent, confidence |-> ConfidenceShared]
     ELSE UnknownResult

\* detectDetailed(userAgent)
detectDetailed(userAgent, custom, crawler) ==
  LET customMatches  == SelectSeq(custom, LAMBDA p : test(p.regexp, userAgent))
      crawlerMatches == SelectSeq(crawler, LAMBDA p : test(p.regexp, userAgent))
  IN IF ~Truthy(userAgent) THEN UnknownResult
     ELSE IF Len(customMatches) > 0 THEN MatchResult(customMatches)
     ELSE IF Len(crawlerMatches) > 0 THEN MatchResult(crawlerMatches)
     ELSE IF includesAny(userAgent, {<<"s","c","r","a","p","e","r">>, <<"c","r","a","w","l","e","r">>, <<"s","p","i","d","e","r">>})
       THEN [isBot |-> TRUE, category |-> "Scraper", name |-> "generic-scraper",
             company |-> Absent, confidence |-> ConfidenceShared]
     ELSE UnknownResult

\* the module-level lists, built once when the module is loaded with the
\* two pattern files
CustomPatternsMemo ==
  [agentPatterns \in RuleLists(AgentSignatures, MaxAgents) |-> customPatterns(agentPatterns)]

CrawlerUserAgentPatternsMemo ==
  [crawlerList \in RuleLists(CrawlerSignatures, MaxAgents) |->
     crawlerUserAgentPatterns(crawlerList)]

CustomPatterns ==
  IF agents \in DOMAIN CustomPatternsMemo THEN CustomPatternsMemo[agents]
  ELSE customPatterns(agents)

CrawlerUserAgentPatterns ==
  IF crawlerPatterns \in DOMAIN CrawlerUserAgentPatternsMemo
    THEN CrawlerUserAgentPatternsMemo[crawlerPatterns]
  ELSE crawlerUserAgentPatterns(crawlerPatterns)

\* the scores of the signatures of the pool
SpecificityMemo == [pattern \in SpecificitySignatures |-> getPatternSpecificity(pattern)]

GetPatternSpecificity(pattern) ==
  /\ call' = [op |-> "getPatternSpecificity", pattern |-> pattern]
  /\ result' = IF pattern \in DOMAIN SpecificityMemo THEN SpecificityMemo[pattern]
                ELSE getPatternSpecificity(pattern)
  /\ UNCHANGED <<configVars, registryVars, envVars, detectorVars>>

\* ------------------------------------------------------------------------
\* The pattern export (utils/patternExport.ts)
\* ------------------------------------------------------------------------

\* null in an exported field
JNull == "<null>"

\* the index of the first occurrence of sub in s from i on, 0 when there is none
RECURSIVE indexOf(_, _, _)
indexOf(s, sub, i) ==
  IF i + Len(sub) - 1 > Len(s) THEN 0
  ELSE IF SubSeq(s, i, i + Len(sub) - 1) = sub THEN i
  ELSE indexOf(s, sub, i + 1)

\* s.replace(sub, by) for a string sub: the first occurrence only
replace(s, sub, by) ==
  IF indexOf(s, sub, 1) = 0 THEN s
  ELSE SubSeq(s, 1, indexOf(s, sub, 1) - 1) \o by
         \o SubSeq(s, indexOf(s, sub, 1) + Len(sub), Len(s))

\* s.split(sep)[0]
splitFirst(s, sep) ==
  IF indexOf(s, sep, 1) = 0 THEN s ELSE SubSeq(s, 1, indexOf(s, sep, 1) - 1)

\* categoryToSubcategoryMap[category] || "Unclassified"
categoryToSubcategory(category) ==
  CASE category \in {"AI Agent", "AI Assistant"} -> "AI Assistants"
    [] category = "Search Crawler" -> "Search Engines"
    [] category = "Scraper" -> "Data Collection Tools"
    [] OTHER -> "Unclassified"

\* agentToIntentMap
agentToIntentMap ==
  <<"c","h","a","t","g","p","t">> :> "UserQuery" @@ <<"c","l","a","u","d","e">> :> "UserQuery" @@ <<"c","l","a","u","d","e","-","u","s","e","r">> :> "UserQuery"
    @@ <<"p","e","r","p","l","e","x","i","t","y">> :> "UserQuery" @@ <<"p","e","r","p","l","e","x","i","t","y","-","u","s","e","r">> :> "UserQuery"
    @@ <<"g","o","o","g","l","e","b","o","t">> :> "Search" @@ <<"b","i","n","g","b","o","t">> :> "Search" @@ <<"c","l","a","u","d","e","-","s","e","a","r","c","h","b","o","t">> :> "Search"
    @@ <<"g","e","n","e","r","i","c","-","s","c","r","a","p","e","r">> :> "DataCollection"

\* an intent that follows the category alone
getIntentForBotByCategory(category, name) ==
  CASE category \in {"AI Agent", "AI Assistant"} -> "UserQuery"
    [] category = "Search Crawler" -> "Search"
    [] category = "Scraper" -> "DataCollection"
    [] OTHER -> "unknown"

\* getIntentForBot(category, name): the map entry of the lowercased name,
\* else the category's fallback
getIntentForBot(category, name) ==
  IF toLowerCase(name) \in DOMAIN agentToIntentMap THEN agentToIntentMap[toLowerCase(name)]
  ELSE CASE category \in {"AI Agent", "AI Assistant"} -> "UserQuery"
         [] category = "Search Crawler" -> "Search"
         [] category = "Scraper" -> "DataCollection"
         [] OTHER -> "unknown"

\* the characters of the names detectDetailed gives (the keys of
\* patternGroups, and "crawler")
NameChars ==
  "chatgpt" :> <<"c","h","a","t","g","p","t">> @@ "claude" :> <<"c","l","a","u","d","e">> @@ "perplexity" :> <<"p","e","r","p","l","e","x","i","t","y">>
    @@ "googlebot" :> <<"g","o","o","g","l","e","b","o","t">> @@ "bingbot" :> <<"b","i","n","g","b","o","t">>
    @@ "generic-scraper" :> <<"g","e","n","e","r","i","c","-","s","c","r","a","p","e","r">> @@ "crawler" :> <<"c","r","a","w","l","e","r">>

\* Mozilla/5.0 (compatible; ${product}; +https://example.com)
mockUserAgent(product) ==
  <<"M","o","z","i","l","l","a","/","5",".","0"," ","(","c","o","m","p","a","t","i","b","l","e",";"," ">> \o product \o <<";"," ","+","h","t","t","p","s",":","/","/","e","x","a","m","p","l","e",".","c","o","m",")">>

\* the entry getAllPatterns builds for a pattern of agents.json; details is
\* what detectDetailed says of its mock user agent. The patterns of the
\* model carry no url and no instances
ExportedAgent(pattern, details) ==
  [pattern |-> pattern, url |-> JNull,
   type |-> toLowerCase(splitFirst(pattern, <<"\\","/">>)),
   category |-> details.category,
   subcategory |-> categoryToSubcategory(details.category),
   company |-> IF details.company = Absent THEN JNull ELSE details.company,
   isCompliant |-> TRUE,
   intent |-> getIntentForBot(details.category, toLowerCase(splitFirst(pattern, <<"\\","/">>))),
   instances |-> <<>>]

\* the entry getAllPatterns builds for a pattern of crawler-user-agents.json
ExportedCrawler(pattern, details) ==
  [pattern |-> pattern, url |-> JNull,
   type |-> toLowerCase(pattern),
   category |-> details.category,
   subcategory |-> categoryToSubcategory(details.category),
   company |-> IF details.company = Absent THEN JNull ELSE details.company,
   isCompliant |-> includes(toLowerCase(pattern), <<"b","o","t">>)
                     \/ includes(toLowerCase(pattern), <<"c","r","a","w","l","e","r">>),
   intent |-> getIntentForBot(details.category,
                              IF details.name = Absent THEN toLowerCase(pattern)
                              ELSE NameChars[details.name])]

\* one forEach loop of getAllPatterns from entry i on: an entry whose
\* signature is in processedPatterns is skipped, any other is pushed and its
\* signature added
RECURSIVE pushUnprocessed(_, _, _)
pushUnprocessed(entries, i, acc) ==
  IF i > Len(entries) THEN acc
  ELSE IF entries[i].pattern \in acc.processedPatterns
    THEN pushUnprocessed(entries, i + 1, acc)
  ELSE pushUnprocessed(entries, i + 1,
         [exportedPatterns |-> Append(acc.exportedPatterns, entries[i]),
          processedPatterns |-> acc.processedPatterns \cup {entries[i].pattern}])

\* a getAllPatterns that processes the crawlers before the agents
getAllPatternsCrawlersFirst(agentList, crawlerList) ==
  LET custom  == customPatterns(agentList)
      crawler == crawlerUserAgentPatterns(crawlerList)
      agentEntries ==
        [i \in DOMAIN agentList |->
           ExportedAgent(agentList[i],
                         detectDetailed(mockUserAgent(replace(agentList[i], VersionMarker, <<"/","1",".","0">>)),
                                        custom, crawler))]
      crawlerEntries ==
        [i \in DOMAIN crawlerList |->
           ExportedCrawler(crawlerList[i],
                           detectDetailed(mockUserAgent(crawlerList[i]), custom, crawler))]
  IN pushUnprocessed(agentEntries, 1,
       pushUnprocessed(crawlerEntries, 1,
         [exportedPatterns |-> <<>>, processedPatterns |-> {}])).exportedPatterns

\* getAllPatterns() over the two pattern files: the agents first, then the
\* crawlers, one set of processed signatures for both loops
getAllPatterns(agentList, crawlerList) ==
  LET custom  == customPatterns(agentList)
      crawler == crawlerUserAgentPatterns(crawlerList)
      agentEntries ==
        [i \in DOMAIN agentList |->
           ExportedAgent(agentList[i],
                         detectDetailed(mockUserAgent(replace(agentList[i], VersionMarker, <<"/","1",".","0">>)),
                                        custom, crawler))]
      crawlerEntries ==
        [i \in DOMAIN crawlerList |->
           ExportedCrawler(crawlerList[i],
                           detectDetailed(mockUserAgent(crawlerList[i]), custom, crawler))]
  IN pushUnprocessed(crawlerEntries, 1,
       pushUnprocessed(agentEntries, 1,
         [exportedPatterns |-> <<>>, processedPatterns |-> {}])).exportedPatterns

\* getAllPatterns(): the exported list (the version of agents.json is not
\* part of the model)
GetAllPatterns ==
  /\ call' = [op |-> "getAllPatterns"]
  /\ result' = [patterns |-> getAllPatterns(agents, crawlerPatterns)]
  /\ UNCHANGED <<configVars, registryVars, envVars, detectorVars>>

DetectorDetect(userAgent) ==
  /\ call' = [op |-> "detector.detect", userAgent |-> userAgent]
  /\ result' = detectorDetect(userAgent, CustomPatterns \o CrawlerUserAgentPatterns)
  /\ UNCHANGED <<configVars, registryVars, envVars, detectorVars>>

DetectDetailed(userAgent) ==
  /\ call' = [op |-> "detectDetailed", userAgent |-> userAgent]
  /\ result' = detectDetailed(userAgent, CustomPatterns, CrawlerUserAgentPatterns)
  /\ UNCHANGED <<configVars, registryVars, envVars, detectorVars>>

\* ------------------------------------------------------------------------
\* Specification of one Spyglasses instance
\* ------------------------------------------------------------------------

Configs ==
  {Config(key, FALSE, block, blocks, <<>>, auto) :
     key \in ApiKeys, block \in BOOLEAN, auto \in BOOLEAN,
     blocks \in RuleLists({AICrawlerDirective}, MaxDirectives)}

Init == NoDetector /\ \E config \in Configs : Constructed(config)

Next ==
  \/ \E userAgent \in UserAgents : DetectBot(userAgent)
  \/ \E referrer \in Referrers : DetectAiReferrer(referrer)
  \/ \E userAgent \in UserAgents, referrer \in Referrers : Detect(userAgent, referrer)
  \/ SyncPatterns
  \/ FetchRejects
  \/ FetchHttpError
  \/ \E body \in ResponseBodies : FetchOk(body)
  \/ \E i \in DOMAIN syncs.reading : JsonRejects(i)
  \/ \E i \in DOMAIN syncs.reading : JsonResolves(i)

Spec == Init /\ [][Next]_vars

\* ------------------------------------------------------------------------
\* Specification of the blocking rules: an instance without API key under
\* every configuration of the rule lists and the switch
\* ------------------------------------------------------------------------

\* category:Unknown, the category directive of a pattern without category
UnknownCategoryDirective == CategoryPrefix \o DefaultCategory

RuleDirectives ==
  {GPTBotPatternDirective, AICrawlerDirective, TrainingSubcategoryDirective,
   GPTBotTypeDirective, AIAgentDirective, UnknownCategoryDirective}

\* the longest customBlocks and customAllows list
MaxRules == 2

RuleConfigs ==
  {Config("", FALSE, block, blocks, allows, TRUE) :
     block \in BOOLEAN,
     blocks \in RuleLists(RuleDirectives, MaxRules),
     allows \in RuleLists(RuleDirectives, MaxRules)}

\* the patterns shouldBlockPattern is applied to
RulePatterns == {GPTBotPattern, ChatGPTUserPattern, GooglebotPattern, UnclassifiedPattern}

InitRules == NoDetector /\ \E config \in RuleConfigs : Constructed(config)

NextRules ==
  \/ \E userAgent \in RuleUserAgents : DetectBot(userAgent)
  \/ \E patternData \in RulePatterns : ShouldBlockPattern(patternData)

SpecRules == InitRules /\ [][NextRules]_vars

\* ------------------------------------------------------------------------
\* Specification of the detector module: loaded with any two pattern files
\* of the pools, then called
\* ------------------------------------------------------------------------

\* the class is not part of the detector module: an instance with the
\* default configuration stands by
DefaultConfig == Config("", FALSE, FALSE, <<>>, <<>>, TRUE)

InitDetector ==
  /\ agents \in RuleLists(AgentSignatures, MaxAgents)
  /\ crawlerPatterns \in RuleLists(CrawlerSignatures, MaxAgents)
  /\ Constructed(DefaultConfig)

NextDetector ==
  \/ \E userAgent \in DetectorUserAgents : DetectorDetect(userAgent)
  \/ \E userAgent \in DetectorUserAgents : DetectDetailed(userAgent)

SpecDetector == InitDetector /\ [][NextDetector]_vars

\* ------------------------------------------------------------------------
\* Specification of the calls without a user agent: the detector module
\* loaded with any two pattern files and an instance with the bundled
\* snapshot, called with and without a user agent
\* ------------------------------------------------------------------------

InitEmptyInput == InitDetector

NextEmptyInput ==
  \/ \E userAgent \in EdgeUserAgents : DetectDetailed(userAgent)
  \/ \E userAgent \in EdgeUserAgents : DetectBot(userAgent)

SpecEmptyInput == InitEmptyInput /\ [][NextEmptyInput]_vars

\* ------------------------------------------------------------------------
\* Specification of an instance and a caller of its getters: the caller
\* keeps the returned array, edits it and assigns fields of its elements
\* ------------------------------------------------------------------------

CallerConfigs == {Config("", FALSE, block, <<>>, <<>>, TRUE) : block \in BOOLEAN}

InitCaller == NoDetector /\ \E config \in CallerConfigs : Constructed(config)

NextCaller ==
  \/ GetPatterns
  \/ GetAiReferrers
  \/ CallerPushes
  \/ CallerPops
  \/ CallerReorders
  \/ \E k \in 1..MaxWritten, write \in CallerWrites : CallerWritesEntry(k, write[1], write[2])
  \/ \E userAgent \in RuleUserAgents : DetectBot(userAgent)
  \/ \E referrer \in Referrers : DetectAiReferrer(referrer)

SpecCaller == InitCaller /\ [][NextCaller]_vars

\* ------------------------------------------------------------------------
\* Specification of an instance fed with malformed snapshots: with and
\* without debug logging, every response has a patterns array
\* ------------------------------------------------------------------------

MalformedConfigs == {Config("test-api-key", dbg, TRUE, <<>>, <<>>, FALSE) : dbg \in BOOLEAN}

InitMalformed == NoDetector /\ \E config \in MalformedConfigs : Constructed(config)

NextMalformed ==
  \/ \E userAgent \in UserAgents : DetectBot(userAgent)
  \/ \E referrer \in Referrers : DetectAiReferrer(referrer)
  \/ \E userAgent \in UserAgents, referrer \in Referrers : Detect(userAgent, referrer)
  \/ SyncPatterns
  \/ \E data \in MalformedBodies : FetchOk(JsonBody(data))
  \/ \E i \in DOMAIN syncs.reading : JsonResolves(i)

SpecMalformed == InitMalformed /\ [][NextMalformed]_vars

\* ------------------------------------------------------------------------
\* Specification of the public interface of an instance: constructed under
\* every configuration of the pool, then reconfigured, queried, synced and
\* asked to log in any order
\* ------------------------------------------------------------------------

ApiConfigs ==
  {Config(key, FALSE, block, <<>>, <<>>, auto) :
     key \in ApiKeys, block \in BOOLEAN, auto \in BOOLEAN}

\* the options objects given to updateConfig
PartialConfigs ==
  {[blockAiModelTrainers |-> TRUE],
   [customBlocks |-> <<AIAgentDirective>>],
   [apiKey |-> "test-api-key", autoSync |-> TRUE],
   [debug |-> TRUE, blockAiModelTrainers |-> FALSE]}

ApiUserAgents == {UaGPTBot, UaChatGPTUser, EmptyString}

ApiReferrers == {RefChatOpenai, undefined}

ApiBodies == {JsonBody(SnapshotV2), JsonBody(InvalidMissing), TextBody}

\* the detection results handed to logRequest
LoggedResults ==
  {NoneResult,
   [isBot |-> TRUE, shouldBlock |-> FALSE, sourceType |-> "bot",
    matchedPattern |-> SigGPTBot, info |-> BotInfo(GPTBotPattern)]}

\* how the collector request ends: a response, or undefined after a failure
CollectorOutcomes == {"response", "undefined"}

InitApi == NoDetector /\ \E config \in ApiConfigs : Constructed(config)

NextApi ==
  \/ \E userAgent \in ApiUserAgents : DetectBot(userAgent)
  \/ \E referrer \in ApiReferrers : DetectAiReferrer(referrer)
  \/ \E userAgent \in ApiUserAgents, referrer \in ApiReferrers : Detect(userAgent, referrer)
  \/ GetPatterns
  \/ GetAiReferrers
  \/ GetPatternVersion
  \/ \E partial \in PartialConfigs : UpdateConfig(partial)
  \/ \E detectionResult \in LoggedResults, outcome \in CollectorOutcomes :
       LogRequest(detectionResult, outcome)
  \/ SyncPatterns
  \/ FetchRejects
  \/ FetchHttpError
  \/ \E body \in ApiBodies : FetchOk(body)
  \/ \E i \in DOMAIN syncs.reading : JsonRejects(i)
  \/ \E i \in DOMAIN syncs.reading : JsonResolves(i)

SpecApi == InitApi /\ [][NextApi]_vars

\* ------------------------------------------------------------------------
\* Specification of the pattern export: the modules loaded with any two
\* pattern files of the pools, then asked to export and to detect
\* ------------------------------------------------------------------------

InitExport ==
  /\ agents \in RuleLists(ExportAgentSignatures, MaxAgents)
  /\ crawlerPatterns \in RuleLists(CrawlerSignatures, MaxAgents)
  /\ Constructed(DefaultConfig)

NextExport ==
  \/ GetAllPatterns
  \/ \E userAgent \in DetectorUserAgents : DetectDetailed(userAgent)

SpecExport == InitExport /\ [][NextExport]_vars

\* ------------------------------------------------------------------------
\* Specification of the registry order: an instance under block rules whose
\* registry is replaced by snapshots with overlapping signatures
\* ------------------------------------------------------------------------

PriorityConfigs ==
  {Config("test-api-key", FALSE, block, blocks, <<>>, FALSE) :
     block \in BOOLEAN,
     blocks \in RuleLists({GPTBotPatternDirective, UnknownCategoryDirective}, MaxDirectives)}

InitPriority == NoDetector /\ \E config \in PriorityConfigs : Constructed(config)

NextPriority ==
  \/ \E userAgent \in UserAgents : DetectBot(userAgent)
  \/ SyncPatterns
  \/ \E data \in OverlappingBodies : FetchOk(JsonBody(data))
  \/ \E i \in DOMAIN syncs.reading : JsonResolves(i)

SpecPriority == InitPriority /\ [][NextPriority]_vars

\* ------------------------------------------------------------------------
\* Specification of the two pattern groups of the detector: loaded with any
\* two pattern files of the pools, then asked about user agents that match
\* in one group, in both or in none
\* ------------------------------------------------------------------------

InitPrecedence == InitDetector

NextPrecedence ==
  \/ \E userAgent \in PrecedenceUserAgents : DetectDetailed(userAgent)
  \/ \E userAgent \in PrecedenceUserAgents : DetectorDetect(userAgent)

SpecPrecedence == InitPrecedence /\ [][NextPrecedence]_vars

\* ------------------------------------------------------------------------
\* Specification of the referrer matching: an instance whose referrer list
\* is the bundled one or that of a response, asked about URLs and raw strings
\* ------------------------------------------------------------------------

ReferrerConfigs ==
  {Config("test-api-key", FALSE, block, <<>>, <<>>, auto) : block \in BOOLEAN, auto \in BOOLEAN}

InitReferrer == NoDetector /\ \E config \in ReferrerConfigs : Constructed(config)

NextReferrer ==
  \/ \E referrer \in ReferrerInputs : DetectAiReferrer(referrer)
  \/ SyncPatterns
  \/ \E data \in ReferrerBodies : FetchOk(JsonBody(data))
  \/ \E i \in DOMAIN syncs.reading : JsonResolves(i)

SpecReferrer == InitReferrer /\ [][NextReferrer]_vars

\* ------------------------------------------------------------------------
\* Specification of the taxonomy defaults: an instance under rules that
\* name the default taxonomy, whose registry is replaced by snapshots with
\* patterns that lack taxonomy fields
\* ------------------------------------------------------------------------

UnknownSubcategoryDirective ==
  SubcategoryPrefix \o DefaultCategory \o Colon \o DefaultSubcategory

UnknownTypeDirective ==
  TypePrefix \o DefaultCategory \o Colon \o DefaultSubcategory \o Colon \o DefaultType

\* subcategory:AI Crawler:Unclassified
UnclassifiedCrawlerDirective == SubcategoryPrefix \o AICrawler \o Colon \o DefaultSubcategory

TaxonomyDirectives ==
  {UnknownCategoryDirective, UnknownSubcategoryDirective, UnknownTypeDirective,
   UnclassifiedCrawlerDirective, AICrawlerDirective}

TaxonomyConfigs ==
  {Config("test-api-key", FALSE, FALSE, blocks, allows, FALSE) :
     blocks \in RuleLists(TaxonomyDirectives, MaxDirectives),
     allows \in RuleLists(TaxonomyDirectives, MaxDirectives)}

TaxonomyPatterns == {UnclassifiedPattern, UntypedPattern, CategoryOnlyPattern, GPTBotPattern}

InitTaxonomy == NoDetector /\ \E config \in TaxonomyConfigs : Constructed(config)

NextTaxonomy ==
  \/ \E userAgent \in UserAgents : DetectBot(userAgent)
  \/ \E patternData \in TaxonomyPatterns : ShouldBlockPattern(patternData)
  \/ SyncPatterns
  \/ \E data \in TaxonomyBodies : FetchOk(JsonBody(data))
  \/ \E i \in DOMAIN syncs.reading : JsonResolves(i)

SpecTaxonomy == InitTaxonomy /\ [][NextTaxonomy]_vars

\* ------------------------------------------------------------------------
\* Specification of the top-level functions: the module is loaded with no
\* default instance; every top-level function obtains the default instance
\* from getDefaultInstance and calls the method of its name on it; init
\* replaces the default instance. The class fields stand for the fields of
\* the default instance; an API key of Absent says that defaultInstance is
\* null
\* ------------------------------------------------------------------------

\* let defaultInstance: Spyglasses | null = null
NoDefaultInstance ==
  /\ apiKey = Absent
  /\ debug = FALSE
  /\ blockAiModelTrainers = FALSE
  /\ customBlocks = <<>>
  /\ customAllows = <<>>
  /\ autoSync = FALSE
  /\ patterns = <<>>
  /\ aiReferrers = <<>>
  /\ patternRegexCache = <<>>
  /\ lastPatternSync = 0
  /\ patternVersion = Absent
  /\ now = 1
  /\ syncs = [fetching |-> 0, reading |-> <<>>]
  /\ fetches = 0
  /\ call = [op |-> "import"]
  /\ result = Pending

\* { ...DEFAULT_CONFIG, ...config }
fullConfig(config) ==
  [field \in DOMAIN DefaultConfig |->
     IF field \in DOMAIN config THEN config[field] ELSE DefaultConfig[field]]

\* new Spyglasses(config) assigned to defaultInstance: the fields of the new
\* object; a sync that the replaced instance has in flight settles on the
\* replaced object, which no top-level function reaches any more
NewSpyglasses(config) ==
  LET full == fullConfig(config)
      starts == full.autoSync /\ full.apiKey # ""
  IN /\ starts => fetches < MaxFetches
     /\ apiKey' = full.apiKey
     /\ debug' = full.debug
     /\ blockAiModelTrainers' = full.blockAiModelTrainers
     /\ customBlocks' = full.customBlocks
     /\ customAllows' = full.customAllows
     /\ autoSync' = full.autoSync
     /\ patterns' = DefaultPatterns
     /\ aiReferrers' = DefaultAiReferrers
     /\ patternRegexCache' = <<>>
     /\ lastPatternSync' = 0
     /\ patternVersion' = DefaultPatternVersion
     /\ syncs' = [fetching |-> IF starts THEN 1 ELSE 0, reading |-> <<>>]
     /\ fetches' = IF starts THEN fetches + 1 ELSE fetches
     /\ UNCHANGED now

\* the optional config argument of a top-level function
NoConfigArgument == [given |-> FALSE, config |-> <<>>]

ConfigArgument(config) == [given |-> TRUE, config |-> config]

\* a top-level function is between getDefaultInstance and the method call
InTopLevelFunction == call.op = "getDefaultInstance"

\* a getDefaultInstance that makes a new instance whenever a config is given
getDefaultInstanceAlwaysNew(argument, then) ==
  /\ ~InTopLevelFunction
  /\ call' = [op |-> "getDefaultInstance", given |-> argument.given, config |-> argument.config,
               created |-> apiKey = Absent, then |-> then]
  /\ result' = [kind |-> "instance"]
  /\ IF apiKey = Absent \/ argument.given
       THEN NewSpyglasses(argument.config)
       ELSE UNCHANGED <<configVars, registryVars, envVars>>
  /\ UNCHANGED detectorVars

\* getDefaultInstance(config), called by the top-level function that goes
\* on with the method call then
getDefaultInstance(argument, then) ==
  /\ ~InTopLevelFunction
  /\ call' = [op |-> "getDefaultInstance", given |-> argument.given, config |-> argument.config,
               created |-> apiKey = Absent, then |-> then]
  /\ result' = [kind |-> "instance"]
  /\ IF apiKey = Absent
       THEN NewSpyglasses(argument.config)
       ELSE IF argument.given
         THEN /\ apiKey' = IF "apiKey" \in DOMAIN argument.config
                             THEN argument.config.apiKey ELSE apiKey
              /\ debug' = IF "debug" \in DOMAIN argument.config
                            THEN argument.config.debug ELSE debug
              /\ blockAiModelTrainers' =
                   IF "blockAiModelTrainers" \in DOMAIN argument.config
                     THEN argument.config.blockAiModelTrainers ELSE blockAiModelTrainers
              /\ customBlocks' = IF "customBlocks" \in DOMAIN argument.config
                                   THEN argument.config.customBlocks ELSE customBlocks
              /\ customAllows' = IF "customAllows" \in DOMAIN argument.config
                                   THEN argument.config.customAllows ELSE customAllows
              /\ autoSync' = IF "autoSync" \in DOMAIN argument.config
                               THEN argument.config.autoSync ELSE autoSync
              /\ UNCHANGED <<registryVars, envVars>>
         ELSE UNCHANGED <<configVars, registryVars, envVars>>
  /\ UNCHANGED detectorVars

\* init(config)
InitDefaultInstance(config) ==
  /\ ~InTopLevelFunction
  /\ call' = [op |-> "init", config |-> config]
  /\ result' = [kind |-> "instance"]
  /\ NewSpyglasses(config)
  /\ UNCHANGED detectorVars

\* the config objects given to the top-level functions and to init
TopLevelConfigs ==
  {[customBlocks |-> <<GPTBotPatternDirective>>],
   [blockAiModelTrainers |-> TRUE],
   [apiKey |-> "test-api-key", autoSync |-> FALSE],
   [apiKey |-> "test-api-key"]}

TopLevelArguments == {NoConfigArgument} \cup {ConfigArgument(config) : config \in TopLevelConfigs}

\* the method calls the top-level functions go on with
TopLevelCalls ==
  {Call("detectBot", UaGPTBot, undefined),
   Call("detectBot", UaBrowser, undefined),
   Call("detectAiReferrer", undefined, RefChatOpenai),
   Call("detect", UaGPTBot, RefChatOpenai),
   Call("syncPatterns", undefined, undefined),
   Call("getPatterns", undefined, undefined),
   Call("getAiReferrers", undefined, undefined)}

InitTopLevel == NoDetector /\ NoDefaultInstance

NextTopLevel ==
  \/ \E argument \in TopLevelArguments, then \in TopLevelCalls : getDefaultInstance(argument, then)
  \/ InTopLevelFunction /\ call.then.op = "detectBot" /\ DetectBot(call.then.userAgent)
  \/ InTopLevelFunction /\ call.then.op = "detectAiReferrer" /\ DetectAiReferrer(call.then.referrer)
  \/ InTopLevelFunction /\ call.then.op = "detect" /\ Detect(call.then.userAgent, call.then.referrer)
  \/ InTopLevelFunction /\ call.then.op = "syncPatterns" /\ SyncPatterns
  \/ InTopLevelFunction /\ call.then.op = "getPatterns" /\ GetPatterns
  \/ InTopLevelFunction /\ call.then.op = "getAiReferrers" /\ GetAiReferrers
  \/ \E config \in TopLevelConfigs : InitDefaultInstance(config)
  \/ ~InTopLevelFunction /\ FetchOk(JsonBody(SnapshotV2))
  \/ ~InTopLevelFunction /\ \E i \in DOMAIN syncs.reading : JsonResolves(i)

SpecTopLevel == InitTopLevel /\ [][NextTopLevel]_vars

\* ------------------------------------------------------------------------
\* Specification of getPatternSpecificity: applied to one signature after
\* another
\* ------------------------------------------------------------------------

InitSpecificity == NoDetector /\ Constructed(DefaultConfig)

NextSpecificity == \E pattern \in SpecificitySignatures : GetPatternSpecificity(pattern)

SpecSpecificity == InitSpecificity /\ [][NextSpecificity]_vars

\* ------------------------------------------------------------------------
\* Properties
\* ------------------------------------------------------------------------

\* the entries of an array
Entries(list) == {list[i] : i \in DOMAIN list}

\* the four directives that address a pattern: by signature, category,
\* subcategory and type, a missing taxonomy field read as its default
DirectivesOf(patternData) ==
  LET category    == OrDefault(patternData.category, DefaultCategory)
      subcategory == OrDefault(patternData.subcategory, DefaultSubcategory)
      type        == OrDefault(patternData.type, DefaultType)
  IN {PatternPrefix \o TemplateStr(patternData.pattern),
      CategoryPrefix \o category,
      SubcategoryPrefix \o category \o Colon \o subcategory,
      TypePrefix \o category \o Colon \o subcategory \o Colon \o type}

\* the last call was a detectBot that matched a pattern
DetectBotMatched == call.op = "detectBot" /\ result.isBot

\* C1: whenever detectBot matches a pattern and customAllows holds a
\* directive addressing that pattern at any of the four granularities, the
\* result has shouldBlock = false, whatever customBlocks holds, whatever
\* blockAiModelTrainers and the isAiModelTrainer flag of the pattern are, and
\* wherever the directive stands in its list.
C1_AllowDefeatsBlock ==
  (DetectBotMatched /\ DirectivesOf(result.info) \cap Entries(customAllows) # {})
    => result.shouldBlock = FALSE

\* C1 happens: a matched model trainer with the switch on, addressed by the
\* second entry of customAllows and by an entry of customBlocks, is not blocked
C1_Witness ==
  /\ DetectBotMatched
  /\ Len(customAllows) = 2
  /\ customAllows[1] \notin DirectivesOf(result.info)
  /\ customAllows[2] \in DirectivesOf(result.info)
  /\ DirectivesOf(result.info) \cap Entries(customBlocks) # {}
  /\ blockAiModelTrainers /\ result.info.isAiModelTrainer
  /\ result.shouldBlock = FALSE

\* the reference decision: an allow directive wins, then a block directive,
\* then the model-trainer switch
ReferenceDecision(patternData, allows, blocks, blockTrainers) ==
  IF DirectivesOf(patternData) \cap Entries(allows) # {} THEN FALSE
  ELSE IF DirectivesOf(patternData) \cap Entries(blocks) # {} THEN TRUE
  ELSE blockTrainers /\ patternData.isAiModelTrainer

\* C2: every shouldBlockPattern call returns the reference decision for its
\* pattern and the configured lists and switch; with both lists empty the
\* verdict is (blockAiModelTrainers and isAiModelTrainer).
C2_SixStepDecision ==
  call.op = "shouldBlockPattern" =>
    /\ result.verdict =
         ReferenceDecision(call.patternData, customAllows, customBlocks, blockAiModelTrainers)
    /\ (customAllows = <<>> /\ customBlocks = <<>>) =>
         (result.verdict = (blockAiModelTrainers /\ call.patternData.isAiModelTrainer))

\* C2 happens: no allow directive addresses the pattern, only its type
\* directive is in customBlocks, the switch is off, and the verdict is true
C2_Witness ==
  /\ call.op = "shouldBlockPattern"
  /\ DirectivesOf(call.patternData) \cap Entries(customAllows) = {}
  /\ DirectivesOf(call.patternData) \cap Entries(customBlocks) = {GPTBotTypeDirective}
  /\ ~blockAiModelTrainers
  /\ result.verdict = TRUE

\* the i-th awaited response body is consumed in this step
ReadingSettles(i) == syncs' = [syncs EXCEPT !.reading = RemoveAt(@, i)]

\* C3: when response.json() of an ok response yields an object whose
\* patterns field is missing or no array, syncPatterns resolves to "Invalid
\* pattern response format" and patterns, aiReferrers, patternVersion,
\* lastPatternSync and the compiled-regex cache are what they were.
C3_InvalidPayloadRejected ==
  [][\A i \in DOMAIN syncs.reading :
       (/\ ReadingSettles(i)
        /\ syncs.reading[i].kind = "json"
        /\ ~IsArray(syncs.reading[i].data.patterns))
       => (/\ call'.op = "syncPatterns"
           /\ result' = ErrorString(InvalidFormatMessage)
           /\ UNCHANGED registryVars)]_vars

\* C3 happens: an invalid payload was refused while the registry of an
\* earlier sync, with regexes compiled since, is in place
C3_Witness ==
  /\ call.op = "syncPatterns"
  /\ result = ErrorString(InvalidFormatMessage)
  /\ patternVersion = "2.0.0"
  /\ lastPatternSync > 0
  /\ patternRegexCache # <<>>

\* a syncPatterns call without API key
NoKeyCall == apiKey = "" /\ call'.op = "syncPatterns"

\* an awaited fetch() settles without handing over a response body
\* (rejection or a response that is not ok)
FetchFails == syncs' = [syncs EXCEPT !.fetching = @ - 1]

\* an awaited response.json() settles on a body that is no JSON
BodyUnparseable ==
  \E i \in DOMAIN syncs.reading : ReadingSettles(i) /\ syncs.reading[i].kind = "text"

\* C4: a syncPatterns call that fails (no API key, fetch rejects, HTTP
\* status not ok, body not parseable) resolves to a string and leaves
\* patterns, aiReferrers, patternVersion and lastPatternSync as they were;
\* without API key no request is issued.
C4_FailedSyncKeepsSnapshot ==
  [][/\ (NoKeyCall \/ FetchFails \/ BodyUnparseable)
          => (/\ call'.op = "syncPatterns"
              /\ result'.kind = "string"
              /\ UNCHANGED <<patterns, aiReferrers, patternVersion, lastPatternSync>>)
     /\ NoKeyCall => (fetches' = fetches /\ syncs' = syncs)]_vars

\* C4 happens: after a successful sync a later call failed on HTTP status
\* and the synced snapshot is still in place
C4_Witness ==
  /\ call.op = "syncPatterns"
  /\ result = ErrorString(HttpErrorMessage("403", "Forbidden"))
  /\ patterns = SnapshotV2.patterns.items
  /\ patternVersion = "2.0.0"
  /\ lastPatternSync > 0

\* C5: the detectBot call that follows a successful sync whose response
\* carries propertySettings computes shouldBlock with those settings.
C5_PlatformSettingsApplied ==
  [][(/\ call.op = "syncPatterns"
      /\ result.kind = "data"
      /\ result.data.propertySettings.present
      /\ call'.op = "detectBot"
      /\ result'.isBot)
     => result'.shouldBlock =
          ReferenceDecision(result'.info,
                            result.data.propertySettings.customAllows,
                            result.data.propertySettings.customBlocks,
                            result.data.propertySettings.blockAiModelTrainers)]_vars

\* the registry a response installs
SnapshotOf(data) ==
  <<data.patterns.items,
    IF data.aiReferrers.t = "undefined" THEN <<>> ELSE data.aiReferrers.items,
    IF data.version = Absent THEN "1.0.0" ELSE data.version>>

Snapshots ==
  {<<DefaultPatterns, DefaultAiReferrers, DefaultPatternVersion>>}
    \cup {SnapshotOf(data) : data \in ValidBodies}

\* C6: in every state a call can observe, patterns, aiReferrers and
\* patternVersion are those of one snapshot (the bundled one or one
\* response), and every cached regex is the compiled signature of a pattern
\* of that snapshot.
C6_RegistryOfOneSnapshot ==
  /\ <<patterns, aiReferrers, patternVersion>> \in Snapshots
  /\ \A source \in DOMAIN patternRegexCache :
       /\ \E i \in DOMAIN patterns : patterns[i].pattern = source
       /\ patternRegexCache[source] = NewRegExp(source)

\* C6 happens: a detect call reads a replaced registry while another sync
\* awaits its response body
C6_Witness ==
  /\ call.op = "detect"
  /\ result.isBot
  /\ lastPatternSync > 0
  /\ patterns = SnapshotV2.patterns.items
  /\ patternRegexCache # <<>>
  /\ syncs.reading # <<>>

\* C7: detect returns the detectBot result whenever that is a bot, for every
\* referrer; otherwise, for a non-empty referrer, the detectAiReferrer result
\* when that is an "ai_referrer" match; otherwise the "none" result.
C7_BotPriority ==
  call.op = "detect" =>
    IF detectBot(call.userAgent).result.isBot
      THEN result = detectBot(call.userAgent).result /\ result.sourceType = "bot"
    ELSE IF /\ call.referrer \notin {undefined, EmptyString}
            /\ detectAiReferrer(call.referrer).sourceType = "ai_referrer"
      THEN result = detectAiReferrer(call.referrer)
    ELSE result = NoneResult

\* C7 happens: a bot user agent together with the referrer of an AI platform
\* yields the bot result
C7_Witness ==
  /\ call.op = "detect"
  /\ detectAiReferrer(call.referrer).sourceType = "ai_referrer"
  /\ result.sourceType = "bot"
  /\ result.isBot

\* C8: detectAiReferrer never returns isBot or shouldBlock, and no result
\* with sourceType "ai_referrer" is a bot or blocked.
C8_ReferrerNeverBlocked ==
  /\ call.op = "detectAiReferrer" => (~result.isBot /\ ~result.shouldBlock)
  /\ (call.op \in {"detectAiReferrer", "detect"} /\ result.sourceType = "ai_referrer")
       => (~result.isBot /\ ~result.shouldBlock)

\* C8 happens: a referrer match under a configuration that blocks model
\* trainers and a whole category
C8_Witness ==
  /\ call.op = "detectAiReferrer"
  /\ result.sourceType = "ai_referrer"
  /\ blockAiModelTrainers
  /\ customBlocks # <<>>

\* the entries of a compiled list whose regexp matches the user agent
MatchCount(compiled, userAgent) ==
  Cardinality({i \in DOMAIN compiled : test(compiled[i].regexp, userAgent)})

LiteralCount(pattern) == Cardinality({i \in DOMAIN pattern : IsAlnum(pattern[i])})

\* the signature holds none of . * + ?
NoWildcard(pattern) == \A i \in DOMAIN pattern : pattern[i] \notin {".", "*", "+", "?"}

\* two getPatternSpecificity calls in a row, on signatures without
\* wildcards, the second with more literal characters
MoreLiteralsNext ==
  /\ call.op = "getPatternSpecificity"
  /\ call'.op = "getPatternSpecificity"
  /\ NoWildcard(call.pattern) /\ NoWildcard(call'.pattern)
  /\ LiteralCount(call'.pattern) > LiteralCount(call.pattern)

\* what a signature earns besides its characters: the version marker, a
\* brand name, being a generic word
Marks(pattern) ==
  <<includes(pattern, <<"\\","/","[","0","-","9","]">>),
    \E brand \in {<<"C","h","a","t","G","P","T">>, <<"C","l","a","u","d","e">>, <<"P","e","r","p","l","e","x","i","t","y">>, <<"G","o","o","g","l","e","b","o","t">>, <<"b","i","n","g","b","o","t">>, <<"G","P","T","B","o","t">>, <<"O","A","I","-">>} :
      includes(pattern, brand),
    toLowerCase(pattern) \in {<<"b","o","t">>, <<"c","r","a","w","l","e","r">>, <<"s","p","i","d","e","r">>}>>

\* C10 as stated: of two signatures without wildcards, the one with more
\* literal characters has the strictly higher score.
C10_MoreLiteralsScoreHigher ==
  [][MoreLiteralsNext => result' > result]_vars

\* C10: of two signatures without wildcards that agree on the version
\* marker, on holding a brand name and on being a generic word, the one with
\* more literal characters has the strictly higher score.
C10_MoreLiteralsScoreHigherSameMarks ==
  [][(MoreLiteralsNext /\ Marks(call.pattern) = Marks(call'.pattern))
       => result' > result]_vars

\* C10 happens: a signature without wildcards, with brand name and version
\* marker, has been scored
C10_Witness ==
  /\ call.op = "getPatternSpecificity"
  /\ NoWildcard(call.pattern)
  /\ Marks(call.pattern) = <<TRUE, TRUE, FALSE>>
  /\ LiteralCount(call.pattern) = 8
  /\ result = 31


\* C11: called with an empty or absent user agent, detectDetailed returns
\* {isBot: false, category: "Unknown", confidence: 1.0}, and detectBot
\* returns {isBot: false, shouldBlock: false, sourceType: "none"} and leaves
\* the regex cache as it was.
C11_AbsentUserAgent ==
  [][/\ (call'.op = "detectDetailed" /\ call'.userAgent \in {<<>>, undefined})
          => /\ result'.isBot = FALSE
             /\ result'.category = "Unknown"
             /\ result'.confidence = "1.0"
             /\ result'.name = Absent /\ result'.company = Absent
     /\ (call'.op = "detectBot" /\ call'.userAgent \in {<<>>, undefined})
          => /\ result' = [isBot |-> FALSE, shouldBlock |-> FALSE, sourceType |-> "none"]
             /\ patternRegexCache' = patternRegexCache]_vars

\* C11 happens: detectBot was called without a user agent on an instance
\* whose regex cache holds compiled patterns
C11_Witness ==
  /\ call.op = "detectBot"
  /\ call.userAgent = undefined
  /\ patternRegexCache # <<>>
  /\ result = NoneResult


\* C12: whatever a caller does to the array getPatterns() or
\* getAiReferrers() returned (pushing, popping, reordering, assigning
\* fields of its elements), the patterns and referrers of the registry stay
\* as they were.
C12_GettersReturnDefensiveCopies ==
  [][call'.op = "caller" => (patterns' = patterns /\ aiReferrers' = aiReferrers)]_vars


\* the first entry of list whose signature, compiled, matches the user agent
FirstMatch(list, userAgent) ==
  LET hits == {i \in DOMAIN list : test(NewRegExp(list[i].pattern), userAgent)}
  IN IF userAgent \in {<<>>, undefined} \/ hits = {} THEN NoneResult
     ELSE BotResult(list[CHOOSE i \in hits : \A j \in hits : i <= j])

\* C13: on a registry of pattern objects some of whose signatures do not
\* compile, detectBot returns what it returns on the registry without those
\* patterns, and the regex cache holds no entry for such a signature.
C13_MalformedPatternSkipped ==
  /\ \A pattern \in DOMAIN patternRegexCache : RegExpCompile(RegExpSource(pattern)).ok
  /\ (call.op = "detectBot" /\ \A i \in DOMAIN patterns : patterns[i] # NullEntry)
       => result = FirstMatch(SelectSeq(patterns, LAMBDA p : RegExpCompile(RegExpSource(p.pattern)).ok),
                              call.userAgent)

\* C13 happens: a signature that does not compile stands before the
\* pattern that detectBot matched and cached
C13_Witness ==
  /\ call.op = "detectBot"
  /\ Len(patterns) = 2
  /\ patterns[1] = MalformedPattern
  /\ ~RegExpCompile(SigMalformed).ok
  /\ result # Thrown
  /\ result.isBot
  /\ result.matchedPattern = patterns[2].pattern
  /\ DOMAIN patternRegexCache = {patterns[2].pattern}


\* C14: detectBot, detectAiReferrer and detect return a DetectionResult on
\* every registry a sync installs from a response whose patterns field is
\* an array, with debug on or off; none of them throws.
C14_NoDetectionCallThrows ==
  call.op \in {"detectBot", "detectAiReferrer", "detect"}
    => /\ result # Thrown
       /\ {"isBot", "shouldBlock", "sourceType"} \subseteq DOMAIN result


\* no sync has succeeded yet: lastPatternSync is stamped with Date.now()
\* only by a successful sync
BeforeFirstSync == lastPatternSync = 0

ExportedSignatures(list) == {list[i].pattern : i \in DOMAIN list}

\* C16: in the list getAllPatterns returns no two entries have the same
\* signature, every signature of agents.json is there, and the entry of a
\* signature of agents.json is the one built from agents.json: its type is
\* the signature before the version marker, it is compliant and it has
\* instances.
C16_DedupFirstWins ==
  call.op = "getAllPatterns" =>
    /\ \A i, j \in DOMAIN result.patterns :
         result.patterns[i].pattern = result.patterns[j].pattern => i = j
    /\ ExportedSignatures(result.patterns)
         = {agents[i] : i \in DOMAIN agents} \cup {crawlerPatterns[i] : i \in DOMAIN crawlerPatterns}
    /\ \A i \in DOMAIN result.patterns :
         result.patterns[i].pattern \in {agents[k] : k \in DOMAIN agents} =>
           /\ "instances" \in DOMAIN result.patterns[i]
           /\ result.patterns[i].isCompliant
           /\ result.patterns[i].type
                = toLowerCase(splitFirst(result.patterns[i].pattern, <<"\\", "/">>))

\* C16 happens: a signature stands in both files, and twice in one of them
C16_Witness ==
  /\ call.op = "getAllPatterns"
  /\ agents = <<SigCrawler, SigGooglebot>>
  /\ crawlerPatterns = <<SigGooglebot, SigGooglebot>>
  /\ Len(result.patterns) = 2


\* the intent the category alone stands for
CategoryIntent(category) ==
  CASE category \in {"AI Agent", "AI Assistant"} -> "UserQuery"
    [] category = "Search Crawler" -> "Search"
    [] category = "Scraper" -> "DataCollection"
    [] OTHER -> "unknown"

\* the exported entries built from agents.json whose type is a key of
\* agentToIntentMap
NamedInMap(entry) == "instances" \in DOMAIN entry /\ entry.type \in DOMAIN agentToIntentMap

\* C17 as stated: every exported pattern has the intent of its category:
\* UserQuery for AI Agent and AI Assistant, Search for Search Crawler,
\* DataCollection for Scraper, unknown for any other.
C17_IntentFromCategory ==
  call.op = "getAllPatterns" =>
    \A i \in DOMAIN result.patterns :
      result.patterns[i].intent = CategoryIntent(result.patterns[i].category)

\* C17 amended: an exported pattern of agents.json whose type is a key of
\* agentToIntentMap has the intent the map gives that type, whatever its
\* category; every other exported pattern has the intent of its category.
C17_IntentFromMapThenCategory ==
  call.op = "getAllPatterns" =>
    \A i \in DOMAIN result.patterns :
      result.patterns[i].intent
        = IF NamedInMap(result.patterns[i]) THEN agentToIntentMap[result.patterns[i].type]
          ELSE CategoryIntent(result.patterns[i].category)

\* C17 happens: the export holds an entry whose intent is the map's and not
\* its category's, and an entry whose intent is its category's
C17_Witness ==
  /\ call.op = "getAllPatterns"
  /\ Len(result.patterns) = 2
  /\ result.patterns[1].pattern = SigClaudeSearchBot
  /\ result.patterns[1].category = "AI Agent"
  /\ result.patterns[1].intent = "Search"
  /\ ~NamedInMap(result.patterns[2])
  /\ result.patterns[2].category = "Search Crawler"
  /\ result.patterns[2].intent = "Search"


\* the configuration as the object of its options
ConfigFields ==
  [apiKey |-> apiKey, debug |-> debug, blockAiModelTrainers |-> blockAiModelTrainers,
   customBlocks |-> customBlocks, customAllows |-> customAllows, autoSync |-> autoSync]

\* the step in which fetch() resolves with an ok response: no call is made
\* and none returns, the pending syncPatterns goes on to await the body
ResponseArrives == Len(syncs'.reading) > Len(syncs.reading)

\* C18: a step changes patterns, aiReferrers or patternVersion only when it
\* is the resolution of a syncPatterns call with valid data, and then the
\* three are the whole content of that response, none of the entries before;
\* every other operation (the detections, the getters, updateConfig,
\* logRequest, a failing sync) leaves them as they are. An updateConfig step
\* sets the options it is given, leaves every other option as it is and
\* starts no request.
C18_RegistryChangesOnlyBySync ==
  [][/\ <<patterns, aiReferrers, patternVersion>>' # <<patterns, aiReferrers, patternVersion>>
          => /\ call'.op = "syncPatterns"
             /\ result'.kind = "data"
             /\ Len(syncs'.reading) < Len(syncs.reading)
             /\ patterns' = result'.data.patterns.items
             /\ aiReferrers' = InstalledReferrers(result'.data.aiReferrers)
             /\ patternVersion' = IF result'.data.version \in {Absent, ""} THEN "1.0.0"
                                   ELSE result'.data.version
     /\ (call'.op = "syncPatterns" /\ result'.kind # "data")
          => registryVars' = registryVars
     /\ call'.op \in {"detectBot", "detectAiReferrer", "detect", "getPatterns",
                       "getAiReferrers", "getPatternVersion", "updateConfig", "logRequest"}
          => <<patterns, aiReferrers, patternVersion, lastPatternSync>>'
               = <<patterns, aiReferrers, patternVersion, lastPatternSync>>
     /\ (call'.op = "updateConfig" /\ ~ResponseArrives)
          => /\ \A field \in DOMAIN ConfigFields :
                  ConfigFields'[field] = IF field \in DOMAIN call'.partial THEN call'.partial[field]
                                         ELSE ConfigFields[field]
             /\ envVars' = envVars
             /\ registryVars' = registryVars]_vars

\* C18 happens: after a sync replaced the registry, and with another request
\* in flight, updateConfig changed two options and nothing else
C18_Witness ==
  /\ call.op = "updateConfig"
  /\ call.partial = [debug |-> TRUE, blockAiModelTrainers |-> FALSE]
  /\ debug
  /\ autoSync
  /\ patternVersion = "2.0.0"
  /\ patterns = <<GooglebotPattern, GPTBotPattern>>
  /\ syncs.fetching = 1


\* the case-insensitive regex compiled from a signature
CompiledFrom(signature) == [source |-> RegExpSource(signature), flags |-> "i"]

\* what detectBot returns when every regex is compiled anew: the first entry
\* of the registry whose signature compiles and matches
DetectBotUncached(userAgent) ==
  LET hits == {i \in DOMAIN patterns :
                 /\ Compiles(RegExpSource(patterns[i].pattern))
                 /\ test(CompiledFrom(patterns[i].pattern), userAgent)}
  IN IF ~Truthy(userAgent) \/ hits = {} THEN NoneResult
     ELSE BotResult(patterns[CHOOSE i \in hits : \A j \in hits : i <= j])

\* the step in which a syncPatterns call resolves with the data it installed
SyncSucceeds ==
  /\ Len(syncs'.reading) < Len(syncs.reading)
  /\ call'.op = "syncPatterns"
  /\ result'.kind = "data"

\* C19: in every state each key of patternRegexCache is the signature of a
\* pattern of the current registry and its value is the case-insensitive
\* regex compiled from that signature; the cache is empty in the state a
\* successful sync leaves; and what detectBot returns, alone or inside
\* detect, is what it returns when every regex is compiled anew.
C19_RegexCacheInvariant ==
  /\ [](\A key \in DOMAIN patternRegexCache :
          /\ key \in {patterns[i].pattern : i \in DOMAIN patterns}
          /\ patternRegexCache[key] = CompiledFrom(key))
  /\ [][/\ SyncSucceeds => patternRegexCache' = <<>>
        /\ (call'.op = "detectBot" /\ ~ResponseArrives)
             => result' = DetectBotUncached(call'.userAgent)
        /\ (call'.op = "detect" /\ ~ResponseArrives /\ result'.sourceType # "ai_referrer")
             => result' = DetectBotUncached(call'.userAgent)]_vars

\* C19 happens: after a sync replaced the registry and emptied the cache,
\* detectBot matched the second pattern of the new registry with the regexes
\* of both patterns cached again
C19_Witness ==
  /\ lastPatternSync > 0
  /\ patternVersion = "2.0.0"
  /\ call.op = "detectBot"
  /\ result.isBot
  /\ Len(patterns) = 2
  /\ result.matchedPattern = patterns[2].pattern
  /\ DOMAIN patternRegexCache = {patterns[1].pattern, patterns[2].pattern}


\* no syncPatterns call awaits anything
AllSettled == syncs.fetching = 0 /\ syncs.reading = <<>>

\* the step in which a syncPatterns call resolves with a message
SyncFails ==
  /\ ~ResponseArrives
  /\ call'.op = "syncPatterns"
  /\ result'.kind = "string"

\* C20: with any number of syncPatterns calls in flight, started by the
\* constructor or by the caller, a call that resolves with valid data leaves
\* the registry equal to the snapshot of its own response, and a call that
\* fails, a call that starts and a response that arrives leave it as it is;
\* so the registry is always one whole snapshot (the bundled one or one
\* response), the bundled one as long as no call succeeded, and when the
\* call that settled last succeeded, the snapshot of its response.
C20_OverlappingSyncsKeepOneSnapshot ==
  /\ [](/\ <<patterns, aiReferrers, patternVersion>> \in Snapshots
        /\ lastPatternSync = 0
             => <<patterns, aiReferrers, patternVersion>>
                  = <<DefaultPatterns, DefaultAiReferrers, DefaultPatternVersion>>
        /\ (AllSettled /\ call.op = "syncPatterns" /\ result.kind = "data")
             => <<patterns, aiReferrers, patternVersion>> = SnapshotOf(result.data))
  /\ [][/\ SyncSucceeds
             => /\ <<patterns, aiReferrers, patternVersion>>' = SnapshotOf(result'.data)
                /\ lastPatternSync' = now
        /\ (SyncFails \/ ResponseArrives \/ syncs'.fetching > syncs.fetching)
             => registryVars' = registryVars]_vars

\* C20 happens: of two calls in flight at once the one whose response came
\* second resolved first and replaced the registry, while the other still
\* awaits its body, a different snapshot
C20_Witness ==
  /\ call.op = "syncPatterns"
  /\ result.kind = "data"
  /\ result.data = SnapshotBare
  /\ <<patterns, aiReferrers, patternVersion>> = SnapshotOf(SnapshotBare)
  /\ syncs.fetching = 0
  /\ syncs.reading = <<JsonBody(SnapshotV2)>>
  /\ fetches = 2


\* the registry entries whose signature compiles and matches the user agent
MatchingEntries(userAgent) ==
  {i \in DOMAIN patterns :
     /\ RegExpCompile(RegExpSource(patterns[i].pattern)).ok
     /\ test(CompiledFrom(patterns[i].pattern), userAgent)}

\* C21: a detectBot call that matches reports the signature and the info of
\* the matching entry that stands first in the registry, and its shouldBlock
\* is the rule verdict of that entry alone, whatever the entries after it
\* are; it reports no bot exactly when no entry matches.
C21_FirstMatchInRegistryOrder ==
  (call.op = "detectBot" /\ Truthy(call.userAgent)) =>
    /\ result.isBot = (MatchingEntries(call.userAgent) # {})
    /\ \A i \in MatchingEntries(call.userAgent) :
         (\A j \in MatchingEntries(call.userAgent) : i <= j) =>
           /\ result.matchedPattern = patterns[i].pattern
           /\ result.info = BotInfo(patterns[i])
           /\ result.shouldBlock
                = ReferenceDecision(BotInfo(patterns[i]), customAllows, customBlocks,
                                    blockAiModelTrainers)

\* C21 happens: the user agent matches the generic signature standing first
\* and the more specific one after it, whose pattern directive is in
\* customBlocks; the first is reported and not blocked
C21_Witness ==
  /\ call.op = "detectBot"
  /\ MatchingEntries(call.userAgent) = {1, 2}
  /\ getPatternSpecificity(patterns[2].pattern) > getPatternSpecificity(patterns[1].pattern)
  /\ customBlocks = <<PatternPrefix \o patterns[2].pattern>>
  /\ ~blockAiModelTrainers
  /\ result.matchedPattern = patterns[1].pattern
  /\ ~result.shouldBlock


\* the entries of a compiled list that match the user agent
MatchesIn(compiled, userAgent) ==
  {i \in DOMAIN compiled : test(compiled[i].regexp, userAgent)}

\* the matching entries of a compiled list with the highest specificity
BestIn(compiled, userAgent) ==
  {i \in MatchesIn(compiled, userAgent) :
     \A j \in MatchesIn(compiled, userAgent) :
       compiled[j].specificity <= compiled[i].specificity}

\* the result names the entry: its category, name and company
NamedBy(entry) ==
  /\ result.category = entry.category
  /\ result.name = entry.name
  /\ result.company = entry.company

\* C22: when an entry of customPatterns matches the input, detectDetailed
\* returns the category, name and company of a matching entry of
\* customPatterns with the highest specificity among those, whatever the
\* matching entries of crawlerUserAgentPatterns score; when none matches and
\* an entry of crawlerUserAgentPatterns does, it returns those of one with
\* the highest specificity among these.
C22_CuratedBeforeFallback ==
  (call.op = "detectDetailed" /\ Truthy(call.userAgent)) =>
    /\ MatchesIn(CustomPatterns, call.userAgent) # {}
         => \E i \in BestIn(CustomPatterns, call.userAgent) : NamedBy(CustomPatterns[i])
    /\ (MatchesIn(CustomPatterns, call.userAgent) = {}
          /\ MatchesIn(CrawlerUserAgentPatterns, call.userAgent) # {})
         => \E i \in BestIn(CrawlerUserAgentPatterns, call.userAgent) :
              NamedBy(CrawlerUserAgentPatterns[i])

\* C22 happens: the input matches one curated entry and a fallback entry
\* that scores higher and names another agent; the curated entry is returned
C22_Witness ==
  /\ call.op = "detectDetailed"
  /\ MatchesIn(CustomPatterns, call.userAgent) = {1}
  /\ \E j \in MatchesIn(CrawlerUserAgentPatterns, call.userAgent) :
       /\ CrawlerUserAgentPatterns[j].specificity > CustomPatterns[1].specificity
       /\ CrawlerUserAgentPatterns[j].name # CustomPatterns[1].name
  /\ NamedBy(CustomPatterns[1])


\* the characters of [a-zA-Z0-9]
AlphanumericChars ==
  {"a", "b", "c", "d", "e", "f", "g", "h", "i", "j", "k", "l", "m", "n", "o", "p", "q", "r", "s", "t", "u", "v", "w", "x", "y", "z"}
    \cup {"A", "B", "C", "D", "E", "F", "G", "H", "I", "J", "K", "L", "M", "N", "O", "P", "Q", "R", "S", "T", "U", "V", "W", "X", "Y", "Z"}
    \cup {"0", "1", "2", "3", "4", "5", "6", "7", "8", "9"}

\* the number of positions of s that hold a character of chars
CountOf(s, chars) == Cardinality({i \in 1..Len(s) : s[i] \in chars})

\* s holds sub as a substring, character for character
Contains(s, sub) == \E i \in 1..(Len(s) - Len(sub) + 1) : \A k \in 1..Len(sub) : s[i + k - 1] = sub[k]

\* s is word up to the case of its letters
SameWord(s, word) ==
  /\ Len(s) = Len(word)
  /\ \A k \in 1..Len(s) : ToLowerChar(s[k]) = word[k]

\* C23: the score of every signature is 2 for each character of
\* [a-zA-Z0-9], minus 3 for each of . * + ?, plus 5 when it contains \/[0-9],
\* plus 10 once when it contains one of ChatGPT, Claude, Perplexity,
\* Googlebot, bingbot, GPTBot, OAI- in that spelling, minus 15 when the whole
\* of it is bot, crawler or spider in any case; nothing else counts.
C23_SpecificityFormula ==
  call.op = "getPatternSpecificity" =>
    result = 2 * CountOf(call.pattern, AlphanumericChars)
               - 3 * CountOf(call.pattern, {".", "*", "+", "?"})
               + (IF Contains(call.pattern, <<"\\","/","[","0","-","9","]">>) THEN 5 ELSE 0)
               + (IF \E brand \in {<<"C","h","a","t","G","P","T">>, <<"C","l","a","u","d","e">>, <<"P","e","r","p","l","e","x","i","t","y">>, <<"G","o","o","g","l","e","b","o","t">>, <<"b","i","n","g","b","o","t">>, <<"G","P","T","B","o","t">>, <<"O","A","I","-">>} :
                       Contains(call.pattern, brand)
                    THEN 10 ELSE 0)
               - (IF \E word \in {<<"b","o","t">>, <<"c","r","a","w","l","e","r">>, <<"s","p","i","d","e","r">>} : SameWord(call.pattern, word)
                    THEN 15 ELSE 0)

\* C23 happens: a signature with two brand names, letters and nothing else
\* scores its letters and one brand bonus
C23_Witness ==
  /\ call.op = "getPatternSpecificity"
  /\ call.pattern = <<"G","P","T","B","o","t","O","A","I","-">>
  /\ result = 28


\* the string detectAiReferrer looks the fragments up in: the lowercased
\* hostname of a referrer that parses as a URL, else the lowercased referrer
MatchedText(referrer) ==
  IF ParseURL(referrer).ok THEN toLowerCase(ParseURL(referrer).hostname)
  ELSE toLowerCase(referrer)

\* the entries of the referrer list with a fragment contained in text
EntriesIn(text) ==
  {i \in DOMAIN aiReferrers :
     \E j \in DOMAIN aiReferrers[i].patterns : Contains(text, aiReferrers[i].patterns[j])}

\* C24: detectAiReferrer reports the first entry of the referrer list that
\* has a fragment contained in the lowercased hostname of a referrer that
\* parses as a URL, or in the lowercased referrer when it does not parse,
\* with the first such fragment of that entry as matchedPattern; it reports
\* none when no entry has one or the referrer is empty. What a URL holds
\* after its hostname plays no part.
C24_ReferrerMatchedByHostname ==
  call.op = "detectAiReferrer" =>
    IF ~Truthy(call.referrer) THEN result = NoneResult
    ELSE IF EntriesIn(MatchedText(call.referrer)) = {} THEN result = NoneResult
    ELSE \E i \in EntriesIn(MatchedText(call.referrer)) :
           /\ \A k \in EntriesIn(MatchedText(call.referrer)) : i <= k
           /\ result.sourceType = "ai_referrer"
           /\ result.info = aiReferrers[i]
           /\ \E j \in DOMAIN aiReferrers[i].patterns :
                /\ result.matchedPattern = aiReferrers[i].patterns[j]
                /\ Contains(MatchedText(call.referrer), aiReferrers[i].patterns[j])
                /\ \A m \in 1..(j - 1) :
                     ~Contains(MatchedText(call.referrer), aiReferrers[i].patterns[m])

\* C24 happens: the path of the URL holds a fragment of the first entry of
\* the list and its hostname fragments of the second and the third; the
\* second entry is reported
C24_Witness ==
  /\ call.op = "detectAiReferrer"
  /\ call.referrer = RefTwoHosts
  /\ Len(aiReferrers) = 3
  /\ Contains(toLowerCase(call.referrer), aiReferrers[1].patterns[1])
  /\ EntriesIn(MatchedText(call.referrer)) = {2, 3}
  /\ result.info = aiReferrers[2]
  /\ result.matchedPattern = DomClaude


\* a detect call and a detectDetailed call in a row, on one user agent that
\* is not empty
DetailedAfterDetect ==
  /\ call.op = "detector.detect"
  /\ call'.op = "detectDetailed"
  /\ call'.userAgent = call.userAgent
  /\ call.userAgent # EmptyString

\* C25: for a user agent that is not empty, detect says bot exactly when an
\* entry of customPatterns or of crawlerUserAgentPatterns matches it, and
\* when detect says bot, detectDetailed called next on the same user agent
\* says bot as well.
C25_DetectAgreesWithDetailed ==
  /\ []((call.op = "detector.detect" /\ call.userAgent # EmptyString) =>
          (result.isBot <=>
             (MatchesIn(CustomPatterns, call.userAgent) # {}
                \/ MatchesIn(CrawlerUserAgentPatterns, call.userAgent) # {})))
  /\ [][(DetailedAfterDetect /\ result.isBot) => result'.isBot]_vars

\* C25 happens: detect said bot for a user agent that no curated entry
\* matches and only the second entry of the fallback list does
C25_Witness ==
  /\ call.op = "detector.detect"
  /\ call.userAgent # EmptyString
  /\ Len(CustomPatterns) > 0
  /\ MatchesIn(CustomPatterns, call.userAgent) = {}
  /\ MatchesIn(CrawlerUserAgentPatterns, call.userAgent) = {2}
  /\ result.isBot


\* no entry of either compiled list matches the user agent
NoPatternMatches(userAgent) ==
  /\ MatchesIn(CustomPatterns, userAgent) = {}
  /\ MatchesIn(CrawlerUserAgentPatterns, userAgent) = {}

\* C26: for a user agent that is not empty and that no entry of either list
\* matches, detectDetailed returns a bot of category Scraper named
\* generic-scraper with confidence 0.7 when the lowercased input contains
\* scraper, crawler or spider, and no bot, category Unknown, confidence 1.0
\* otherwise; and in every result the confidence is 1.0, 0.9 or 0.7, and 1.0
\* exactly when isBot is false.
C26_LastResortAndConfidence ==
  call.op = "detectDetailed" =>
    /\ (Truthy(call.userAgent) /\ NoPatternMatches(call.userAgent)) =>
         IF \E word \in {<<"s","c","r","a","p","e","r">>, <<"c","r","a","w","l","e","r">>, <<"s","p","i","d","e","r">>} :
              Contains(toLowerCase(call.userAgent), word)
           THEN /\ result.isBot
                /\ result.category = "Scraper"
                /\ result.name = "generic-scraper"
                /\ result.company = Absent
                /\ result.confidence = "0.7"
           ELSE /\ ~result.isBot
                /\ result.category = "Unknown"
                /\ result.name = Absent
                /\ result.company = Absent
                /\ result.confidence = "1.0"
    /\ result.confidence \in {"1.0", "0.9", "0.7"}
    /\ result.confidence = "1.0" <=> ~result.isBot

\* C26 happens: no pattern of the two files matches MySpider/0.1, and it is
\* classified as a scraper by the word in it
C26_Witness ==
  /\ call.op = "detectDetailed"
  /\ call.userAgent = UaSpider
  /\ Len(CustomPatterns) > 0 /\ Len(CrawlerUserAgentPatterns) > 0
  /\ NoPatternMatches(call.userAgent)
  /\ result.isBot
  /\ result.name = "generic-scraper"
  /\ result.confidence = "0.7"


\* C27: every DetectionResult that detectBot, detectAiReferrer or detect
\* returns has isBot true exactly when its sourceType is bot and shouldBlock
\* true only then; with sourceType none it has no matchedPattern and no
\* info; with sourceType bot or ai_referrer it has both, and for bot the
\* matchedPattern is the signature of an entry of the registry that matches
\* the user agent.
C27_ResultsWellFormed ==
  (call.op \in {"detectBot", "detectAiReferrer", "detect"} /\ result # Thrown) =>
    /\ result.isBot <=> result.sourceType = "bot"
    /\ result.shouldBlock => result.sourceType = "bot"
    /\ result.sourceType \in {"bot", "ai_referrer", "none"}
    /\ result.sourceType = "none" => DOMAIN result = {"isBot", "shouldBlock", "sourceType"}
    /\ result.sourceType # "none" =>
         /\ {"matchedPattern", "info"} \subseteq DOMAIN result
         /\ result.matchedPattern # undefined
    /\ result.sourceType = "bot" =>
         \E i \in DOMAIN patterns :
           /\ patterns[i] # NullEntry
           /\ patterns[i].pattern = result.matchedPattern
           /\ result.matchedPattern # undefined
           /\ test(CompiledFrom(patterns[i].pattern), call.userAgent)


\* the lists of the pool that hold the same directives as list, in any order
\* and number, and list in reverse and doubled
SameDirectives(list) ==
  {other \in RuleLists(RuleDirectives, MaxRules) : Entries(other) = Entries(list)}
    \cup {list \o list, [i \in DOMAIN list |-> list[Len(list) + 1 - i]]}

\* C28: for the pattern and the switch of a shouldBlockPattern call, the
\* verdict with one more directive in customAllows, wherever it is put, is
\* false when the verdict is; the verdict with one more directive in
\* customBlocks is true when the verdict is; and the verdict is the same for
\* all lists that hold the same directives.
C28_VerdictMonotone ==
  call.op = "shouldBlockPattern" =>
    /\ \A d \in RuleDirectives :
         /\ shouldBlock(call.patternData, Append(customAllows, d), customBlocks,
                         blockAiModelTrainers) => result.verdict
         /\ shouldBlock(call.patternData, <<d>> \o customAllows, customBlocks,
                         blockAiModelTrainers) => result.verdict
         /\ result.verdict => shouldBlock(call.patternData, customAllows,
                                            Append(customBlocks, d), blockAiModelTrainers)
         /\ result.verdict => shouldBlock(call.patternData, customAllows,
                                            <<d>> \o customBlocks, blockAiModelTrainers)
    /\ \A allows \in SameDirectives(customAllows), blocks \in SameDirectives(customBlocks) :
         shouldBlock(call.patternData, allows, blocks, blockAiModelTrainers) = result.verdict

\* C28 happens: a pattern blocked by a directive of customBlocks, with an
\* allow list of two directives that do not address it; one more allow
\* directive that does would turn the verdict to false
C28_Witness ==
  /\ call.op = "shouldBlockPattern"
  /\ result.verdict
  /\ Len(customAllows) = 2 /\ customAllows[1] # customAllows[2]
  /\ DirectivesOf(call.patternData) \cap Entries(customAllows) = {}
  /\ DirectivesOf(call.patternData) \cap Entries(customBlocks) # {}
  /\ \E d \in RuleDirectives :
       ~shouldBlock(call.patternData, Append(customAllows, d), customBlocks, blockAiModelTrainers)


\* a taxonomy field as the rules read it: the default when it is missing
\* or empty
FieldOr(value, default) == IF value \in {undefined, <<>>} THEN default ELSE value

\* the three taxonomy directives of a category, subcategory and type
TaxonomyDirectivesOf(category, subcategory, type) ==
  {<<"c","a","t","e","g","o","r","y",":">> \o category,
   <<"s","u","b","c","a","t","e","g","o","r","y",":">> \o category \o <<":">> \o subcategory,
   <<"t","y","p","e",":">> \o category \o <<":">> \o subcategory \o <<":">> \o type}

\* the verdict of the rules for a pattern addressed by directives
VerdictFor(directives, trainer) ==
  IF directives \cap Entries(customAllows) # {} THEN FALSE
  ELSE IF directives \cap Entries(customBlocks) # {} THEN TRUE
  ELSE blockAiModelTrainers /\ trainer

\* C29: shouldBlockPattern resolves the taxonomy directives of a pattern
\* with Unknown, Unclassified and unknown in place of a category,
\* subcategory and type that is missing or empty; the info of a detectBot
\* result carries these values for the matched pattern, and its shouldBlock
\* is the verdict for the taxonomy the info carries.
C29_DefaultedTaxonomy ==
  /\ call.op = "shouldBlockPattern" =>
       result.verdict
         = VerdictFor({<<"p","a","t","t","e","r","n",":">> \o call.patternData.pattern}
                        \cup TaxonomyDirectivesOf(FieldOr(call.patternData.category, <<"U","n","k","n","o","w","n">>),
                                                  FieldOr(call.patternData.subcategory, <<"U","n","c","l","a","s","s","i","f","i","e","d">>),
                                                  FieldOr(call.patternData.type, <<"u","n","k","n","o","w","n">>)),
                      call.patternData.isAiModelTrainer)
  /\ (call.op = "detectBot" /\ result.isBot) =>
       /\ \E i \in MatchingEntries(call.userAgent) :
            /\ patterns[i].pattern = result.matchedPattern
            /\ result.info.category = FieldOr(patterns[i].category, <<"U","n","k","n","o","w","n">>)
            /\ result.info.subcategory = FieldOr(patterns[i].subcategory, <<"U","n","c","l","a","s","s","i","f","i","e","d">>)
            /\ result.info.type = FieldOr(patterns[i].type, <<"u","n","k","n","o","w","n">>)
       /\ result.shouldBlock
            = VerdictFor({<<"p","a","t","t","e","r","n",":">> \o result.info.pattern}
                           \cup TaxonomyDirectivesOf(result.info.category,
                                                     result.info.subcategory, result.info.type),
                         result.info.isAiModelTrainer)

\* C29 happens: detectBot matched a pattern without taxonomy fields under
\* customBlocks = [category:Unknown]; it is blocked and reported as Unknown
C29_Witness ==
  /\ call.op = "detectBot"
  /\ result.isBot
  /\ \E i \in DOMAIN patterns :
       /\ patterns[i].pattern = result.matchedPattern
       /\ patterns[i].category = undefined
  /\ customBlocks = <<<<"c","a","t","e","g","o","r","y",":","U","n","k","n","o","w","n">>>>
  /\ customAllows = <<>>
  /\ result.info.category = <<"U","n","k","n","o","w","n">>
  /\ result.info.subcategory = <<"U","n","c","l","a","s","s","i","f","i","e","d">>
  /\ result.info.type = <<"u","n","k","n","o","w","n">>
  /\ result.shouldBlock


\* the default instance exists
HasDefaultInstance == apiKey # Absent

\* the registry is the bundled snapshot, as loadDefaultPatterns leaves it
BundledRegistry ==
  /\ patterns = DefaultPatterns
  /\ aiReferrers = DefaultAiReferrers
  /\ patternVersion = "1.0.0"
  /\ lastPatternSync = 0

\* the value of a configuration field after config was given: the value
\* config names, else the value it had
FieldAfter(config, field, before) == IF field \in DOMAIN config THEN config[field] ELSE before

\* the configuration is config laid over the values before
ConfiguredOver(config, before) ==
  /\ apiKey' = FieldAfter(config, "apiKey", before.apiKey)
  /\ debug' = FieldAfter(config, "debug", before.debug)
  /\ blockAiModelTrainers' = FieldAfter(config, "blockAiModelTrainers", before.blockAiModelTrainers)
  /\ customBlocks' = FieldAfter(config, "customBlocks", before.customBlocks)
  /\ customAllows' = FieldAfter(config, "customAllows", before.customAllows)
  /\ autoSync' = FieldAfter(config, "autoSync", before.autoSync)

ConfigurationNow ==
  [apiKey |-> apiKey, debug |-> debug, blockAiModelTrainers |-> blockAiModelTrainers,
   customBlocks |-> customBlocks, customAllows |-> customAllows, autoSync |-> autoSync]

ConfigurationDefaults ==
  [apiKey |-> "", debug |-> FALSE, blockAiModelTrainers |-> FALSE,
   customBlocks |-> <<>>, customAllows |-> <<>>, autoSync |-> TRUE]

\* this step is a top-level function obtaining the default instance
ObtainsInstance == call'.op = "getDefaultInstance" /\ call.op # "getDefaultInstance"

\* this step is a call of init
Initialises == call'.op = "init" /\ ~ResponseArrives /\ result'.kind = "instance"

\* what a step does to the default instance
DefaultInstanceStep ==
  /\ (ObtainsInstance /\ ~HasDefaultInstance) =>
       /\ HasDefaultInstance'
       /\ BundledRegistry'
       /\ patternRegexCache' = <<>>
       /\ ConfiguredOver(call'.config, ConfigurationDefaults)
  /\ (ObtainsInstance /\ HasDefaultInstance) =>
       /\ ConfiguredOver(call'.config, ConfigurationNow)
       /\ call'.given \/ ConfigurationNow' = ConfigurationNow
       /\ UNCHANGED <<patterns, aiReferrers, patternRegexCache, lastPatternSync, patternVersion>>
  /\ (~ObtainsInstance /\ ~Initialises) => ConfigurationNow' = ConfigurationNow
  /\ Initialises =>
       /\ HasDefaultInstance'
       /\ BundledRegistry'
       /\ patternRegexCache' = <<>>
       /\ ConfiguredOver(call'.config, ConfigurationDefaults)

\* C30: the first call of a top-level function creates the default
\* instance; a later call that passes a config changes the configuration of
\* that instance and keeps its registry, a call that passes none changes
\* neither, and nothing but a passed config or init changes the
\* configuration; the method then answers under the configuration in force;
\* init(config) leaves a default instance that holds the bundled snapshot
\* under config laid over the defaults.
C30_SharedDefaultInstance ==
  /\ [][DefaultInstanceStep]_vars
  /\ []((call.op = "detectBot" /\ result.isBot) =>
          result.shouldBlock
            = VerdictFor({<<"p","a","t","t","e","r","n",":">> \o result.info.pattern}
                           \cup TaxonomyDirectivesOf(result.info.category,
                                                     result.info.subcategory, result.info.type),
                         result.info.isAiModelTrainer))

\* C30 happens: a top-level function passed a config to the default
\* instance after a sync had replaced its registry; the instance has the
\* rule of the config and the synced registry
C30_Witness ==
  /\ call.op = "getDefaultInstance"
  /\ call.given
  /\ ~call.created
  /\ "customBlocks" \in DOMAIN call.config
  /\ customBlocks = call.config.customBlocks
  /\ apiKey = "test-api-key"
  /\ patternVersion = SnapshotV2.version
  /\ lastPatternSync > 0

====
